---- MODULE Spec2Model ----
(***************************************************************************)
(* DocQue: the in-memory document store (app/storage.py), the document     *)
(* processor and the answer synthesizer (app/services.py) and the          *)
(* /documents and /query handlers (app/routes.py).                         *)
(*                                                                         *)
(* A Python str is a sequence of one-character strings, so that lower(),   *)
(* split(), count(), slicing and the `in` test are computed as Python      *)
(* computes them.  A float score is the rational it denotes, kept as a     *)
(* pair <<numerator, denominator>> in lowest terms.  None is <<>> and a    *)
(* value that may be None is <<v>>.                                        *)
(***************************************************************************)
EXTENDS Integers, Sequences, FiniteSets, TLC

\* F(v), with v computed once: every local the code assigns once is bound this way
Bind(v, F(_)) == CHOOSE r \in {F(x) : x \in {v}} : TRUE

\* ------------------------------------------------------------------ text
Range(s) == {s[i] : i \in 1..Len(s)}

Min2(a, b) == IF a <= b THEN a ELSE b

Max2(a, b) == IF a >= b THEN a ELSE b

\* the characters str.split() and str.strip() treat as whitespace
Whitespace == {" ", "\n", "\t"}

UpperLetters == <<"A","B","C","D","E","F","G","H","I","J","K","L","M","N","O","P","Q","R","S","T","U","V","W",
                  "X","Y","Z">>

LowerLetters == <<"a","b","c","d","e","f","g","h","i","j","k","l","m","n","o","p","q","r","s","t","u","v","w",
                  "x","y","z">>

lower_char(c) ==
    IF \E i \in 1..Len(UpperLetters) : UpperLetters[i] = c
    THEN LowerLetters[CHOOSE i \in 1..Len(UpperLetters) : UpperLetters[i] = c]
    ELSE c

\* str.lower()
lower(s) == Bind(s, LAMBDA x : [i \in 1..Len(x) |-> lower_char(x[i])])

\* str.lstrip()
lstrip(s) ==
    Bind(s, LAMBDA x :
        SubSeq(x, Cardinality({i \in 1..Len(x) : \A j \in 1..i : x[j] \in Whitespace}) + 1, Len(x)))

\* str.rstrip()
rstrip(s) ==
    Bind(s, LAMBDA x :
        SubSeq(x, 1, Len(x) - Cardinality({i \in 1..Len(x) : \A j \in i..Len(x) : x[j] \in Whitespace})))

\* str.strip()
strip(s) == rstrip(lstrip(s))

\* s[:n], for n of either sign
slice_to(s, n) ==
    Bind(s, LAMBDA x : Bind(n, LAMBDA k :
        IF k >= 0 THEN SubSeq(x, 1, Min2(k, Len(x))) ELSE SubSeq(x, 1, Max2(0, Len(x) + k))))

\* text[start:end_] for 0 <= start
py_slice(text, start, end_) == SubSeq(text, start + 1, Min2(end_, Len(text)))

\* sub occurs in s at the 1-based position i
occurs_at(s, sub, i) == i + Len(sub) - 1 <= Len(s) /\ SubSeq(s, i, i + Len(sub) - 1) = sub

\* sub in s
substr_in(sub, s) ==
    \E x \in {s}, y \in {sub} : \E i \in 1..(Len(x) - Len(y) + 1) : occurs_at(x, y, i)

\* s.count(sub): the non-overlapping occurrences, left to right
count(s, sub) ==
    Bind(s, LAMBDA x : Bind(sub, LAMBDA y :
        IF y = <<>> THEN Len(x) + 1
        ELSE LET from[i \in 1..(Len(x) + Len(y) + 1)] ==
                     IF i + Len(y) - 1 > Len(x) THEN 0
                     ELSE IF occurs_at(x, y, i) THEN 1 + from[i + Len(y)]
                     ELSE from[i + 1]
             IN from[1]))

\* the 1-based index of the last character of the word of x that starts at i
word_end(x, i) ==
    CHOOSE e \in i..Len(x) :
        /\ \A j \in i..e : x[j] \notin Whitespace
        /\ e = Len(x) \/ x[e + 1] \in Whitespace

\* s.split(): the maximal runs of non-whitespace characters
split(s) ==
    Bind(s, LAMBDA x :
        LET from[i \in 1..(Len(x) + 1)] ==
                IF i > Len(x) THEN <<>>
                ELSE IF x[i] \in Whitespace THEN from[i + 1]
                ELSE Bind(word_end(x, i), LAMBDA e : <<SubSeq(x, i, e)>> \o from[e + 1])
        IN from[1])

\* s.split(c) for a one-character separator: empty pieces are kept
split_on(s, c) ==
    Bind(s, LAMBDA x :
        LET from[i \in 1..(Len(x) + 1)] ==
                IF \E k \in i..Len(x) : x[k] = c
                THEN Bind(CHOOSE k \in i..Len(x) : x[k] = c /\ \A j \in i..(k - 1) : x[j] # c,
                          LAMBDA k : <<SubSeq(x, i, k - 1)>> \o from[k + 1])
                ELSE <<SubSeq(x, i, Len(x))>>
        IN from[1])

\* the concatenation of the lists of `lists`
flatten(lists) ==
    Bind(lists, LAMBDA ls :
        LET upto[i \in 0..Len(ls)] == IF i = 0 THEN <<>> ELSE upto[i - 1] \o ls[i]
        IN upto[Len(ls)])

\* sep.join(parts)
join(sep, parts) ==
    Bind(parts, LAMBDA ps : Bind(sep, LAMBDA sp :
        LET upto[i \in 0..Len(ps)] ==
                IF i = 0 THEN <<>>
                ELSE IF i = 1 THEN ps[1]
                ELSE upto[i - 1] \o sp \o ps[i]
        IN upto[Len(ps)]))

\* ------------------------------------------------------------ float scores
GCD(a, b) ==
    LET gcd[p \in Nat \X Nat] == IF p[2] = 0 THEN p[1] ELSE gcd[<<p[2], p[1] % p[2]>>]
    IN gcd[<<a, b>>]

\* the rational n/d (n >= 0, d > 0) in lowest terms
Rat(n, d) == Bind(GCD(n, d), LAMBDA g : <<n \div g, d \div g>>)

RAdd(a, b) == Bind(a, LAMBDA x : Bind(b, LAMBDA y : Rat(x[1] * y[2] + y[1] * x[2], x[2] * y[2])))

RMul(a, b) == Bind(a, LAMBDA x : Bind(b, LAMBDA y : Rat(x[1] * y[1], x[2] * y[2])))

RLt(a, b) == \E x \in {a}, y \in {b} : x[1] * y[2] < y[1] * x[2]

RLe(a, b) == \E x \in {a}, y \in {b} : x[1] * y[2] <= y[1] * x[2]

RMin(a, b) == Bind(a, LAMBDA x : Bind(b, LAMBDA y : IF RLe(x, y) THEN x ELSE y))

RMax(a, b) == Bind(a, LAMBDA x : Bind(b, LAMBDA y : IF RLe(x, y) THEN y ELSE x))

\* max(...) over a non-empty sequence of scores
rmax_of(scores) ==
    Bind(scores, LAMBDA ss : CHOOSE m \in Range(ss) : \A o \in Range(ss) : RLe(o, m))

\* ---------------------------------------------------------------- bounds
\* documents that may be stored over a run (the ids uuid4 hands out)
MaxUploads == 2

\* the largest max_results a request carries (the smallest is -1)
MaxResults == 2

\* the longest of the short texts chunk_text is given, and the lengths of the long ones
MaxShortText == 4
LongLengths == {702, 1154, 1350}

\* the most chunks a store given to the vector search holds
MaxSearchChunks == 3

\* ------------------------------------------------------- program constants
chunk_size == 500

chunk_overlap == 50

upload_chunk_size == 500

upload_chunk_overlap == 50

EmbeddingDim == 384

ModelDim == 384

ChunksPerDoc == 3

NoMatchPreview == 800

ContentPreview == 1000

TopicLimit == 100

MinNoMatchAnswer == 20

MinAnswer == 10

FallbackContexts == 3

OverviewDocs == 3

\* ------------------------------------------------------------------ state
VARIABLES
    documents,           \* DocumentStorage.documents: the Documents, in insertion order
    chunks,              \* DocumentStorage.chunks: <<doc_id, DocumentChunk list>> entries, in insertion order
    next_id,             \* the number of ids uuid4 has handed out
    document_processor,  \* services.document_processor: "None" or "DocumentProcessor"
    llm_service,         \* services.llm_service: "None" or "LLMService"
    request,             \* the request whose handler has just run, [op |-> "none"] between requests
    response,            \* what that handler returned
    trace                \* that handler's locals: the matcher's lists, the return site, the provider call

vars == <<documents, chunks, next_id, document_processor, llm_service, request, response, trace>>

\* ------------------------------------------------------------ app/storage.py
doc_ids(docs) == {docs[i].id : i \in 1..Len(docs)}

chunk_keys(chs) == {chs[i][1] : i \in 1..Len(chs)}

\* DocumentStorage.get_document: the Document, or <<>> for None
get_document(docs, doc_id) ==
    IF doc_id \in doc_ids(docs)
    THEN <<docs[CHOOSE i \in 1..Len(docs) : docs[i].id = doc_id]>>
    ELSE <<>>

\* DocumentStorage.get_all_documents
get_all_documents(docs) == docs

\* DocumentStorage.store_document: the maps after the insert
store_document(docs, chs, doc_id, filename, content) ==
    [documents |-> Append(docs, [id |-> doc_id, filename |-> filename,
                                 content |-> content, chunks |-> <<>>]),
     chunks |-> Append(chs, <<doc_id, <<>>>>)]

\* the delete without `del self.documents[doc_id]`
delete_document_keeping_document(docs, chs, doc_id) ==
    IF doc_id \in doc_ids(docs)
    THEN [documents |-> docs,
          chunks |-> IF doc_id \in chunk_keys(chs)
                     THEN SelectSeq(chs, LAMBDA e : e[1] # doc_id) ELSE chs,
          result |-> TRUE]
    ELSE [documents |-> docs, chunks |-> chs, result |-> FALSE]

\* the delete without `del self.chunks[doc_id]`
delete_document_keeping_chunks(docs, chs, doc_id) ==
    IF doc_id \in doc_ids(docs)
    THEN [documents |-> SelectSeq(docs, LAMBDA d : d.id # doc_id),
          chunks |-> chs,
          result |-> TRUE]
    ELSE [documents |-> docs, chunks |-> chs, result |-> FALSE]

\* DocumentStorage.delete_document
delete_document(docs, chs, doc_id) ==
    IF doc_id \in doc_ids(docs)
    THEN [documents |-> SelectSeq(docs, LAMBDA d : d.id # doc_id),
          chunks |-> IF doc_id \in chunk_keys(chs)
                     THEN SelectSeq(chs, LAMBDA e : e[1] # doc_id) ELSE chs,
          result |-> TRUE]
    ELSE [documents |-> docs, chunks |-> chs, result |-> FALSE]

\* document.chunks = texts, on the Document stored under doc_id
set_doc_chunks(docs, doc_id, texts) ==
    [i \in 1..Len(docs) |-> IF docs[i].id = doc_id THEN [docs[i] EXCEPT !.chunks = texts] ELSE docs[i]]

\* self.chunks[doc_id] = new_chunks: an existing key keeps its place, a new one goes last
set_chunks_entry(chs, doc_id, new_chunks) ==
    IF doc_id \in chunk_keys(chs)
    THEN [i \in 1..Len(chs) |-> IF chs[i][1] = doc_id THEN <<doc_id, new_chunks>> ELSE chs[i]]
    ELSE Append(chs, <<doc_id, new_chunks>>)

\* the store_chunks without `if doc_id in self.documents`
store_chunks_unguarded(docs, chs, doc_id, new_chunks) ==
    [documents |-> set_doc_chunks(docs, doc_id,
                       [i \in 1..Len(new_chunks) |-> new_chunks[i].content]),
     chunks |-> set_chunks_entry(chs, doc_id, new_chunks)]

\* DocumentStorage.store_chunks
store_chunks(docs, chs, doc_id, new_chunks) ==
    IF doc_id \in doc_ids(docs)
    THEN [documents |-> set_doc_chunks(docs, doc_id,
                            [i \in 1..Len(new_chunks) |-> new_chunks[i].content]),
          chunks |-> set_chunks_entry(chs, doc_id, new_chunks)]
    ELSE [documents |-> docs, chunks |-> chs]

\* ----------------------------------------------------------- app/services.py
\* text.rfind(c, start, end_): the highest 0-based index in [start, end_) holding c, else -1
rfind(text, c, start, end_) ==
    Bind({i \in start..(Min2(end_, Len(text)) - 1) : text[i + 1] = c}, LAMBDA hits :
        IF hits = {} THEN -1 ELSE CHOOSE i \in hits : \A j \in hits : j <= i)

\* re.sub(r'\s+', ' ', text)
collapse_whitespace(s) ==
    Bind(s, LAMBDA x :
    Bind(SelectSeq([i \in 1..Len(x) |-> i],
                   LAMBDA i : x[i] \notin Whitespace \/ i = 1 \/ x[i - 1] \notin Whitespace),
         LAMBDA first_of_run :
        [k \in 1..Len(first_of_run) |->
            IF x[first_of_run[k]] \in Whitespace THEN " " ELSE x[first_of_run[k]]]))

\* \w of the regular expression, over the characters of the model
WordChars == Range(UpperLetters) \cup Range(LowerLetters) \cup Range(<<"0","1","2","3","4","5","6","7","8",
                                                                       "9","_">>)

\* the characters [^\w\s\.\,\!\?\;\:\-\(\)] leaves alone
AllowedChars == WordChars \cup Whitespace \cup Range(<<".",",","!","?",";",":","-","(",")">>)

\* DocumentProcessor._clean_text
clean_text(text) ==
    Bind(collapse_whitespace(text), LAMBDA collapsed :
        strip([i \in 1..Len(collapsed) |->
                 IF collapsed[i] \in AllowedChars THEN collapsed[i] ELSE " "]))

\* the chunk end with a boundary accepted anywhere after `start`
chunk_end_any_boundary(text, start) ==
    Bind(start + chunk_size, LAMBDA end0 :
        IF end0 < Len(text)
        THEN Bind(rfind(text, ".", start, end0), LAMBDA sentence_end :
                 IF sentence_end > start THEN sentence_end + 1
                 ELSE Bind(rfind(text, " ", start, end0), LAMBDA word_end_ :
                          IF word_end_ > start THEN word_end_ ELSE end0))
        ELSE end0)

\* where the chunk that starts at `start` ends (0-based, exclusive)
chunk_end(text, start) ==
    Bind(start + chunk_size, LAMBDA end0 :
        IF end0 < Len(text)
        THEN Bind(rfind(text, ".", start, end0), LAMBDA sentence_end :
                 IF sentence_end > start + chunk_size \div 2 THEN sentence_end + 1
                 ELSE Bind(rfind(text, " ", start, end0), LAMBDA word_end_ :
                          IF word_end_ > start + chunk_size \div 2 THEN word_end_ ELSE end0))
        ELSE end0)

\* start = end - self.chunk_overlap, and `if start >= end: start = end`
next_start(end_) ==
    IF end_ - chunk_overlap >= end_ THEN end_ ELSE end_ - chunk_overlap

\* text[start:end].strip()
chunk_of(text, start, end_) == strip(py_slice(text, start, end_))

\* the while loop of DocumentProcessor.chunk_text: the chunks appended from `start` on
chunk_loop(text, first) ==
    Bind(text, LAMBDA t :
        LET from[start \in 0..(Len(t) + chunk_size)] ==
                IF ~(start < Len(t)) THEN <<>>
                ELSE Bind(chunk_end(t, start), LAMBDA end_ :
                     Bind(chunk_of(t, start, end_), LAMBDA chunk :
                        (IF chunk # <<>> THEN <<chunk>> ELSE <<>>) \o from[next_start(end_)]))
        IN from[first])

\* the test with < in place of <=
fits_one_chunk_strict(text) == Len(text) < chunk_size

\* if len(text) <= self.chunk_size
fits_one_chunk(text) == Len(text) <= chunk_size

\* DocumentProcessor.chunk_text
chunk_text(text) ==
    Bind(clean_text(text), LAMBDA cleaned :
        IF fits_one_chunk(cleaned) THEN <<cleaned>> ELSE chunk_loop(cleaned, 0))

\* an embedding: `dim` floats, those after the first Len(head) being 0.0
ZeroVector == [dim |-> EmbeddingDim, head |-> <<0, 0>>]

\* what embedding_model.encode gives for one text when it succeeds
ModelVectors == {[dim |-> ModelDim, head |-> <<1, 0>>], [dim |-> ModelDim, head |-> <<3, 4>>]}

\* the ways one encode() call may end: "error", or one vector per text
EncodeOutcomes(n) ==
    {[kind |-> "error"]} \cup {[kind |-> "ok", vectors |-> v] : v \in [1..n -> ModelVectors]}

\* the fallback with one-component vectors
generate_embeddings_short_fallback(texts, encode) ==
    IF encode.kind = "ok" THEN encode.vectors
    ELSE [i \in 1..Len(texts) |-> [dim |-> 1, head |-> <<0, 0>>]]

\* DocumentProcessor.generate_embeddings
generate_embeddings(texts, encode) ==
    IF encode.kind = "ok" THEN encode.vectors
    ELSE [i \in 1..Len(texts) |-> ZeroVector]

\* DocumentProcessor.generate_query_embedding: encode([query])[0], or the dummy vector
generate_query_embedding(query, encode) ==
    IF encode.kind = "ok" THEN encode.vectors[1] ELSE ZeroVector

\* the process_document that reports success for a document it did not find
process_document_true_when_missing(docs, chs, doc_id, encode) ==
    IF get_document(docs, doc_id) = <<>>
    THEN [documents |-> docs, chunks |-> chs, result |-> TRUE]
    ELSE Bind(chunk_text(get_document(docs, doc_id)[1].content), LAMBDA texts :
         Bind(generate_embeddings(texts, encode), LAMBDA embeddings :
         Bind(store_chunks(docs, chs, doc_id,
                  [i \in 1..Min2(Len(texts), Len(embeddings)) |->
                     [document_id |-> doc_id, chunk_index |-> i - 1,
                      content |-> texts[i], embedding |-> <<embeddings[i]>>]]), LAMBDA stored :
              [documents |-> stored.documents, chunks |-> stored.chunks, result |-> TRUE])))

\* DocumentProcessor.process_document: the maps after the call, and what it returns
process_document(docs, chs, doc_id, encode) ==
    IF get_document(docs, doc_id) = <<>>
    THEN [documents |-> docs, chunks |-> chs, result |-> FALSE]
    ELSE Bind(chunk_text(get_document(docs, doc_id)[1].content), LAMBDA texts :
         Bind(generate_embeddings(texts, encode), LAMBDA embeddings :
         Bind([i \in 1..Min2(Len(texts), Len(embeddings)) |->
                 [document_id |-> doc_id, chunk_index |-> i - 1,
                  content |-> texts[i], embedding |-> <<embeddings[i]>>]],
              LAMBDA document_chunks :
         Bind(store_chunks(docs, chs, doc_id, document_chunks), LAMBDA stored :
              [documents |-> stored.documents, chunks |-> stored.chunks, result |-> TRUE]))))

\* ------------------------------------- app/routes.py: the lexical matcher
\* the value lists of semantic_expansions (the keys are never read)
semantic_expansions ==
    << <<<<"n","a","m","e">>, <<"c","a","l","l","e","d">>, <<"n","a","m","e","d">>, <<"t","i","t","l","e">>>>,
       <<<<"w","h","a","t">>, <<"w","h","o">>, <<"w","h","i","c","h">>>>,
       <<<<"w","h","e","r","e">>, <<"l","o","c","a","t","i","o","n">>, <<"p","l","a","c","e">>, <<"a","d","d","r","e","s","s">>>>,
       <<<<"w","h","e","n">>, <<"d","a","t","e">>, <<"t","i","m","e">>>>,
       <<<<"h","o","w">>, <<"m","e","t","h","o","d">>, <<"w","a","y">>>>,
       <<<<"e","m","a","i","l">>, <<"m","a","i","l">>, <<"c","o","n","t","a","c","t">>>>,
       <<<<"p","h","o","n","e">>, <<"n","u","m","b","e","r">>, <<"c","o","n","t","a","c","t">>, <<"m","o","b","i","l","e">>>>,
       <<<<"w","o","r","k">>, <<"j","o","b">>, <<"c","o","m","p","a","n","y">>, <<"e","m","p","l","o","y","e","r">>>>,
       <<<<"e","d","u","c","a","t","i","o","n">>, <<"s","c","h","o","o","l">>, <<"u","n","i","v","e","r","s","i","t","y">>, <<"d","e","g","r","e","e">>, <<"s","t","u","d","y">>>> >>

question_indicators ==
    <<<<"w","h","a","t">>, <<"w","h","o">>, <<"w","h","e","r","e">>, <<"w","h","e","n">>, <<"h","o","w">>, <<"t","e","l","l">>, <<"d","e","s","c","r","i","b","e">>>>

query_lower(query) == lower(query)

\* the word filter without its length bound
own_query_words_any_length(query) ==
    Bind(split(query_lower(query)), LAMBDA words :
        SelectSeq([i \in 1..Len(words) |-> strip(words[i])], LAMBDA w : Len(w) > 0))

\* [word.strip() for word in query_lower.split() if len(word.strip()) > 2]
own_query_words(query) ==
    Bind(split(query_lower(query)), LAMBDA words :
        SelectSeq([i \in 1..Len(words) |-> strip(words[i])], LAMBDA w : Len(w) > 2))

\* expanded_words: the query's words and every expansion list one of them is in
expanded_words(query) ==
    Bind(Range(own_query_words(query)), LAMBDA own :
        own \cup UNION {Range(semantic_expansions[k]) :
                          k \in {j \in 1..Len(semantic_expansions) :
                                   own \cap Range(semantic_expansions[j]) # {}}})

\* query_words = list(expanded_words): its order is read only when it has one element
query_words(query) == expanded_words(query)

\* the indicator test on the query as typed
is_question_case_sensitive(query) ==
    \E k \in 1..Len(question_indicators) : substr_in(question_indicators[k], query)

is_question(query) ==
    \E ql \in {query_lower(query)} :
        \E k \in 1..Len(question_indicators) : substr_in(question_indicators[k], ql)

\* word_score: the sum of content_lower.count(word) over the words found
sum_counts(content_lower, words) ==
    Bind(content_lower, LAMBDA cl :
        LET sum[ws \in SUBSET words] ==
                IF ws = {} THEN 0
                ELSE Bind(CHOOSE x \in ws : TRUE, LAMBDA w : count(cl, w) + sum[ws \ {w}])
        IN sum[words])

\* the test with >= in place of >
has_word_match_nonneg(matched_words) == matched_words >= 0

\* if matched_words > 0
has_word_match(matched_words) == matched_words > 0

\* the score without the 0.7 weight
word_match_score_unweighted(matched_words, n_words, word_score) ==
    RAdd(Rat(matched_words, n_words), RMin(Rat(word_score, 10), Rat(3, 10)))

\* (matched_words / len(query_words)) * 0.7 + min(word_score / 10, 0.3)
word_match_score(matched_words, n_words, word_score) ==
    RAdd(RMul(Rat(matched_words, n_words), Rat(7, 10)), RMin(Rat(word_score, 10), Rat(3, 10)))

\* the fuzzy test in one direction only: a word of the content contains the query word
partial_word_match_superset_only(query_word, content_lower) ==
    \E word \in Range(split(content_lower)) : substr_in(query_word, word)

\* the fuzzy test of the one query word against the words of the content
partial_word_match(query_word, content_lower) ==
    \E word \in Range(split(content_lower)) :
        substr_in(query_word, word) \/ substr_in(word, query_word)

NoScore == [exact |-> FALSE, word |-> <<>>, partial |-> <<>>, raised |-> FALSE]

\* what one pass of `for doc in documents` adds for a document whose content has the
\* words `found` of query_words `qw`, and whether the pass raises ZeroDivisionError
score_document(content_lower, qw, found, question) ==
    IF has_word_match(Cardinality(found))
    THEN IF Cardinality(qw) = 0
         THEN [NoScore EXCEPT !.raised = TRUE]
         ELSE [NoScore EXCEPT !.word = <<word_match_score(Cardinality(found), Cardinality(qw),
                                                         sum_counts(content_lower, found))>>]
    ELSE IF question
         THEN [NoScore EXCEPT !.partial = <<Rat(4, 10)>>]
    ELSE IF Cardinality(qw) = 1 /\ Len(CHOOSE w \in qw : TRUE) > 4
         THEN IF partial_word_match(CHOOSE w \in qw : TRUE, content_lower)
              THEN [NoScore EXCEPT !.partial = <<Rat(3, 10)>>]
              ELSE NoScore
    ELSE NoScore

\* one pass of `for doc in documents`
scan_document(doc, ql, qw, question) ==
    Bind(lower(doc.content), LAMBDA content_lower :
    Bind({w \in qw : substr_in(w, content_lower)}, LAMBDA found :
        [score_document(content_lower, qw, found, question)
            EXCEPT !.exact = substr_in(ql, content_lower)]))

\* the loop over the documents, with the locals computed before it
scans(docs, query) ==
    Bind(query_lower(query), LAMBDA ql :
    Bind(query_words(query), LAMBDA qw :
    Bind(is_question(query), LAMBDA question :
        [i \in 1..Len(docs) |-> scan_document(docs[i], ql, qw, question)])))

exact_matches(docs, sc) ==
    flatten([i \in 1..Len(docs) |->
               IF sc[i].exact THEN <<[id |-> docs[i].id, score |-> Rat(1, 1)]>> ELSE <<>>])

word_matches(docs, sc) ==
    flatten([i \in 1..Len(docs) |->
               IF sc[i].word # <<>>
               THEN <<[id |-> docs[i].id, score |-> sc[i].word[1]]>> ELSE <<>>])

partial_matches(docs, sc) ==
    flatten([i \in 1..Len(docs) |->
               IF sc[i].partial # <<>>
               THEN <<[id |-> docs[i].id, score |-> sc[i].partial[1]]>> ELSE <<>>])

\* the concatenation with the word matches put first
all_matches_word_first(docs, sc) ==
    word_matches(docs, sc) \o exact_matches(docs, sc) \o partial_matches(docs, sc)

\* all_matches = exact_matches + word_matches + partial_matches
all_matches(docs, sc) ==
    exact_matches(docs, sc) \o word_matches(docs, sc) \o partial_matches(docs, sc)

\* m put before the entries that score as much: an unstable sort
insert_desc_before_ties(sorted, m) ==
    Bind(sorted, LAMBDA srt :
    Bind(Cardinality({i \in 1..Len(srt) : RLt(m.score, srt[i].score)}), LAMBDA k :
        SubSeq(srt, 1, k) \o <<m>> \o SubSeq(srt, k + 1, Len(srt))))

\* m put into the descending list `sorted`, after the entries that score at least as much
insert_desc(sorted, m) ==
    Bind(sorted, LAMBDA srt :
    Bind(Cardinality({i \in 1..Len(srt) : RLe(m.score, srt[i].score)}), LAMBDA k :
        SubSeq(srt, 1, k) \o <<m>> \o SubSeq(srt, k + 1, Len(srt))))

\* matches.sort(key=lambda x: x[1], reverse=True): descending and stable
sort_matches(matches) ==
    Bind(matches, LAMBDA ms :
        LET sorted[i \in 0..Len(ms)] ==
                IF i = 0 THEN <<>> ELSE insert_desc(sorted[i - 1], ms[i])
        IN sorted[Len(ms)])

\* the loop keeping the last entry of each document
remove_duplicates_keep_last(matches) ==
    Bind(matches, LAMBDA ms :
        flatten([i \in 1..Len(ms) |->
                   IF \E j \in (i + 1)..Len(ms) : ms[j].id = ms[i].id THEN <<>> ELSE <<ms[i]>>]))

\* the seen_docs loop: the first entry of each document is kept
remove_duplicates(matches) ==
    Bind(matches, LAMBDA ms :
        LET kept[i \in 0..Len(ms)] ==
                IF i = 0 THEN <<>>
                ELSE IF \E j \in 1..(i - 1) : ms[j].id = ms[i].id
                     THEN kept[i - 1]
                     ELSE Append(kept[i - 1], ms[i])
        IN kept[Len(ms)])

\* `if is_question and not unique_matches`: every document at 0.5
question_fill(docs, query, unique) ==
    IF is_question(query) /\ unique = <<>>
    THEN [i \in 1..Len(docs) |-> [id |-> docs[i].id, score |-> Rat(5, 10)]]
    ELSE unique

\* the matcher: whether its loop raises, and unique_matches as the rest of the handler reads it
lexical_matcher(docs, query) ==
    Bind(scans(docs, query), LAMBDA sc :
        IF \E i \in 1..Len(docs) : sc[i].raised
        THEN [raised |-> TRUE, unique_matches |-> <<>>]
        ELSE [raised |-> FALSE,
              unique_matches |->
                  Bind(remove_duplicates(sort_matches(all_matches(docs, sc))),
                       LAMBDA unique : question_fill(docs, query, unique))])

\* ------------------------------------- app/storage.py: the vector search
\* DocumentStorage.get_all_chunks: the chunk lists of the map, in key order
get_all_chunks(chs) == flatten([i \in 1..Len(chs) |-> chs[i][2]])

\* math.sqrt, on the perfect squares the vectors of the model give
sqrt(n) == CHOOSE r \in 0..n : r * r = n

\* sum(a * b for a, b in zip(vec1, vec2)): the components after the head are 0.0
dot_product(vec1, vec2) ==
    Bind(Min2(Len(vec1.head), Len(vec2.head)), LAMBDA n :
        LET upto[i \in 0..n] == IF i = 0 THEN 0 ELSE upto[i - 1] + vec1.head[i] * vec2.head[i]
        IN upto[n])

\* the similarity without the division by the magnitudes
cosine_similarity_unnormalized(vec1, vec2) ==
    Bind(sqrt(dot_product(vec1, vec1)), LAMBDA magnitude1 :
    Bind(sqrt(dot_product(vec2, vec2)), LAMBDA magnitude2 :
        IF magnitude1 = 0 \/ magnitude2 = 0 THEN Rat(0, 1)
        ELSE Rat(dot_product(vec1, vec2), 1)))

\* DocumentStorage._cosine_similarity
cosine_similarity(vec1, vec2) ==
    Bind(sqrt(dot_product(vec1, vec1)), LAMBDA magnitude1 :
    Bind(sqrt(dot_product(vec2, vec2)), LAMBDA magnitude2 :
        IF magnitude1 = 0 \/ magnitude2 = 0 THEN Rat(0, 1)
        ELSE Rat(dot_product(vec1, vec2), magnitude1 * magnitude2)))

\* chunk.embedding is not None
has_embedding(chunk) == chunk.embedding # <<>>

\* DocumentStorage.search_chunks_by_similarity
search_chunks_by_similarity(chs, query_embedding, max_results) ==
    Bind(SelectSeq(get_all_chunks(chs), has_embedding), LAMBDA chunks_with_embeddings :
        IF chunks_with_embeddings = <<>> THEN <<>>
        ELSE Bind(sort_matches([i \in 1..Len(chunks_with_embeddings) |->
                                  [chunk |-> chunks_with_embeddings[i],
                                   score |-> cosine_similarity(query_embedding,
                                                 chunks_with_embeddings[i].embedding[1])]]),
                  LAMBDA similarities :
                Bind(slice_to(similarities, max_results), LAMBDA top :
                    [i \in 1..Len(top) |-> top[i].chunk])))

\* ------------------------------------------ app/services.py: the synthesizer
NoRelevantInformation == <<"N","o"," ","r","e","l","e","v","a","n","t"," ","i","n","f","o","r","m","a","t",
                           "i","o","n"," ","f","o","u","n","d"," ","i","n"," ","t","h","e"," ","u","p","l",
                           "o","a","d","e","d"," ","d","o","c","u","m","e","n","t","s",".">>

UnavailableMarker == <<"L","L","M"," ","s","y","n","t","h","e","s","i","s"," ","u","n","a","v","a","i","l",
                       "a","b","l","e">>

\* doc.filename if doc else "Unknown document"
fallback_doc_name(docs, document_id) ==
    IF get_document(docs, document_id) # <<>>
    THEN get_document(docs, document_id)[1].filename
    ELSE <<"U","n","k","n","o","w","n"," ","d","o","c","u","m","e","n","t">>

\* str(n) for 0 <= n <= 99
decimal(n) ==
    IF n < 10 THEN <<<<"0","1","2","3","4","5","6","7","8","9">>[n + 1]>>
    ELSE <<<<"0","1","2","3","4","5","6","7","8","9">>[(n \div 10) + 1], <<"0","1","2","3","4","5","6","7","8","9">>[(n % 10) + 1]>>

\* str(document_id): "temp_<i>" for the ids the query handler makes up, the uuid otherwise
id_text(document_id) ==
    IF document_id[1] = "temp" THEN <<"t","e","m","p","_">> \o decimal(document_id[2])
    ELSE <<"u","u","i","d","-">> \o decimal(document_id[2])

\* doc.filename if doc else f"Document {chunk.document_id}"
prompt_doc_name(docs, document_id) ==
    IF get_document(docs, document_id) # <<>>
    THEN get_document(docs, document_id)[1].filename
    ELSE <<"D","o","c","u","m","e","n","t"," ">> \o id_text(document_id)

\* the `for chunk in relevant_chunks` loop of the except branch
fallback_lines(docs, relevant_chunks) ==
    flatten([i \in 1..Len(relevant_chunks) |->
               <<"F","r","o","m"," ">> \o fallback_doc_name(docs, relevant_chunks[i].document_id) \o <<":"," ">>
               \o relevant_chunks[i].content \o <<"\n","\n">>])

\* LLMService.synthesize_answer, the completion provider ending as `completion`:
\* [kind |-> "reply", text |-> the message content] or [kind |-> "error", text |-> str(e)]
synthesize_answer(docs, query, relevant_chunks, completion) ==
    IF relevant_chunks = <<>>
    THEN [answer |-> NoRelevantInformation, called |-> FALSE]
    ELSE IF completion.kind = "reply"
    THEN [answer |-> strip(completion.text), called |-> TRUE]
    ELSE [answer |-> <<"B","a","s","e","d"," ","o","n"," ","t","h","e"," ","a","v","a","i","l","a","b","l",
                       "e"," ","d","o","c","u","m","e","n","t","s",":","\n","\n">>
                     \o fallback_lines(docs, relevant_chunks)
                     \o <<"\n","(","N","o","t","e",":"," ">> \o UnavailableMarker \o <<":"," ">> \o completion.text \o <<")">>,
          called |-> TRUE]

\* get_llm_service: the singleton after the call, and whether the call raises
get_llm_service(service, construct_ok) ==
    IF service # "None" THEN [service |-> service, raised |-> FALSE]
    ELSE IF construct_ok THEN [service |-> "LLMService", raised |-> FALSE]
    ELSE [service |-> "None", raised |-> TRUE]

\* get_document_processor: the singleton after the call, and whether the call raises
get_document_processor(processor, construct_ok) ==
    IF processor # "None" THEN [processor |-> processor, raised |-> FALSE]
    ELSE IF construct_ok THEN [processor |-> "DocumentProcessor", raised |-> FALSE]
    ELSE [processor |-> "None", raised |-> TRUE]

\* --------------------------------------- app/routes.py: query_documents
NoDocumentsAnswer ==
    <<"N","o"," ","d","o","c","u","m","e","n","t","s"," ","h","a","v","e"," ","b","e","e","n"," ","u","p","l",
      "o","a","d","e","d"," ","y","e","t","."," ","P","l","e","a","s","e"," ","u","p","l","o","a","d"," ","s",
      "o","m","e"," ","d","o","c","u","m","e","n","t","s"," ","f","i","r","s","t",".">>

ErrorAnswer == <<"S","o","r","r","y",","," ","t","h","e","r","e"," ","w","a","s"," ","a","n"," ","e","r","r",
                 "o","r"," ","p","r","o","c","e","s","s","i","n","g"," ","y","o","u","r"," ","q","u","e","r",
                 "y","."," ","P","l","e","a","s","e"," ","t","r","y"," ","a","g","a","i","n",".">>

filenames_of(docs) == [i \in 1..Len(docs) |-> docs[i].filename]

\* the DocumentChunks the no-match branch builds from one document
no_match_chunks(doc) ==
    IF doc.chunks # <<>>
    THEN [i \in 1..Len(slice_to(doc.chunks, ChunksPerDoc)) |->
            [document_id |-> doc.id, chunk_index |-> i - 1,
             content |-> doc.chunks[i], embedding |-> <<>>]]
    ELSE <<[document_id |-> doc.id, chunk_index |-> 0,
            content |-> slice_to(doc.content, NoMatchPreview), embedding |-> <<>>]>>

\* the one character U+2022 that starts a topic line
Bullet == "U+2022"

\* the topic line of one document in the overview
doc_topic(doc) ==
    Bind(join(<<".">>, slice_to(split_on(doc.content, "."), 2)), LAMBDA joined :
        <<Bullet, " ">> \o doc.filename \o <<":"," ">>
        \o (IF Len(joined) > TopicLimit
            THEN slice_to(strip(joined), TopicLimit) \o <<".",".",".">>
            ELSE strip(joined)))

\* the answer of the overview response
overview_answer(docs, query) ==
    LET shown == slice_to(docs, OverviewDocs)
    IN <<"I"," ","c","o","u","l","d","n","'","t"," ","f","i","n","d"," ","s","p","e","c","i","f","i","c"," ",
         "i","n","f","o","r","m","a","t","i","o","n"," ","a","b","o","u","t"," ","'">> \o query
       \o <<"'"," ","i","n"," ","y","o","u","r"," ","d","o","c","u","m","e","n","t","s","."," ","H","e","r",
            "e","'","s"," ","w","h","a","t"," ","y","o","u","r"," ","d","o","c","u","m","e","n","t","s"," ",
            "c","o","n","t","a","i","n",":","\n","\n">>
       \o join(<<"\n">>, [i \in 1..Len(shown) |-> doc_topic(shown[i])])
       \o <<"\n","\n","T","r","y"," ","a","s","k","i","n","g"," ","a","b","o","u","t"," ","t","h","e","s","e",
            " ","t","o","p","i","c","s"," ","o","r"," ","u","p","l","o","a","d"," ","m","o","r","e"," ","r",
            "e","l","e","v","a","n","t"," ","d","o","c","u","m","e","n","t","s",".">>

\* answer and len(answer.strip()) > 20 and "no relevant information" not in answer.lower()
no_match_answer_ok(answer) ==
    /\ answer # <<>>
    /\ Len(strip(answer)) > MinNoMatchAnswer
    /\ ~substr_in(<<"n","o"," ","r","e","l","e","v","a","n","t"," ","i","n","f","o","r","m","a","t","i","o",
                    "n">>, lower(answer))

\* the acceptance test without its marker clause
answer_ok_length_only(answer) ==
    /\ answer # <<>>
    /\ Len(strip(answer)) > MinAnswer

\* answer and len(answer.strip()) > 10 and "LLM synthesis unavailable" not in answer
answer_ok(answer) ==
    /\ answer # <<>>
    /\ Len(strip(answer)) > MinAnswer
    /\ ~substr_in(UnavailableMarker, answer)

\* how the completion provider call of a synthesize_answer result ended
provider_outcome(synth, completion) == IF synth.called THEN completion.kind ELSE "not_called"

\* the handler's locals: the return site, the match lists, the number of candidate chunks,
\* how the provider call ended, whether get_llm_service raised, whether an exception escaped
NoTrace == [site |-> "none", unique_matches |-> <<>>, top |-> <<>>, contexts |-> 0,
            provider |-> "not_called", service_raised |-> FALSE, escaped |-> FALSE]

\* the `if not unique_matches` branch
no_match_branch(docs, service, query, construct_ok, completion) ==
    Bind(flatten([i \in 1..Len(docs) |-> no_match_chunks(docs[i])]), LAMBDA all_chunks :
    Bind(get_llm_service(service, construct_ok), LAMBDA got :
    Bind(IF got.raised THEN [answer |-> <<>>, called |-> FALSE]
         ELSE synthesize_answer(docs, query, all_chunks, completion), LAMBDA synth :
        IF ~got.raised /\ no_match_answer_ok(synth.answer)
        THEN [response |-> [status |-> 200, answer |-> synth.answer,
                            sources |-> filenames_of(docs), confidence |-> Rat(6, 10)],
              llm_service |-> got.service,
              trace |-> [NoTrace EXCEPT !.site = "llm_no_match", !.contexts = Len(all_chunks),
                                        !.provider = provider_outcome(synth, completion),
                                        !.service_raised = got.raised]]
        ELSE [response |-> [status |-> 200, answer |-> overview_answer(docs, query),
                            sources |-> filenames_of(docs), confidence |-> Rat(1, 10)],
              llm_service |-> got.service,
              trace |-> [NoTrace EXCEPT !.site = "overview", !.contexts = Len(all_chunks),
                                        !.provider = provider_outcome(synth, completion),
                                        !.service_raised = got.raised]])))

\* the relevant_contexts one match adds
contexts_of(doc, score) ==
    IF doc.chunks # <<>>
    THEN [i \in 1..Len(slice_to(doc.chunks, ChunksPerDoc)) |->
            [content |-> doc.chunks[i], filename |-> doc.filename, score |-> score]]
    ELSE <<[content |-> IF Len(doc.content) > ContentPreview
                        THEN slice_to(doc.content, ContentPreview) \o <<".",".",".">>
                        ELSE doc.content,
            filename |-> doc.filename, score |-> score]>>

\* "High" if score > 0.8 else "Medium" if score > 0.5 else "Low"
confidence_indicator(score) ==
    IF RLt(Rat(8, 10), score) THEN <<"H","i","g","h">>
    ELSE IF RLt(Rat(5, 10), score) THEN <<"M","e","d","i","u","m">>
    ELSE <<"L","o","w">>

\* the answer of the except branch: the first contexts under a "From" heading each
context_extraction(relevant_contexts) ==
    LET shown == slice_to(relevant_contexts, FallbackContexts)
    IN join(<<"\n","\n">>,
            [i \in 1..Len(shown) |->
               <<"*","*","F","r","o","m"," ">> \o shown[i].filename \o <<"*","*"," ","(">>
               \o confidence_indicator(shown[i].score) \o <<" ","r","e","l","e","v","a","n","c","e",")",":",
                                                            "\n">>
               \o shown[i].content])

\* the response the synthesis branch ends with
synthesis_response(answer, sources, overall_confidence) ==
    [status |-> 200, answer |-> answer, sources |-> sources,
     confidence |-> RMin(overall_confidence, Rat(1, 1))]

\* the DocumentChunks made for the LLM: document_id=f"temp_{i}", embedding=None
llm_chunks_of(relevant_contexts) ==
    [i \in 1..Len(relevant_contexts) |->
        [document_id |-> <<"temp", i - 1>>, chunk_index |-> i - 1,
         content |-> relevant_contexts[i].content, embedding |-> <<>>]]

\* `if relevant_contexts:` with its try and except: the LLM answer or the context extraction
synthesize_or_extract(docs, service, query, top, relevant_contexts, sources, construct_ok, completion) ==
    Bind(llm_chunks_of(relevant_contexts), LAMBDA llm_chunks :
    Bind(get_llm_service(service, construct_ok), LAMBDA got :
    Bind(IF got.raised THEN [answer |-> <<>>, called |-> FALSE]
         ELSE synthesize_answer(docs, query, llm_chunks, completion), LAMBDA synth :
    Bind([i \in 1..Len(top) |-> top[i].score], LAMBDA top_scores :
    Bind([NoTrace EXCEPT !.top = top, !.contexts = Len(relevant_contexts),
                         !.provider = provider_outcome(synth, completion),
                         !.service_raised = got.raised], LAMBDA tr :
        IF top_scores = <<>>
        THEN \* max() of an empty sequence raises, in the try and again in its except
             [response |-> synthesis_response(
                               <<"F","o","u","n","d"," ","i","n","f","o","r","m","a","t","i","o","n"," ","r",
                                 "e","l","a","t","e","d"," ","t","o"," ","'">> \o query
                               \o <<"'"," ","b","u","t"," ","c","o","u","l","d","n","'","t"," ","p","r","o",
                                    "c","e","s","s"," ","i","t"," ","p","r","o","p","e","r","l","y",".">>, sources, Rat(3, 10)),
              llm_service |-> got.service,
              trace |-> [tr EXCEPT !.site = "synthesis_error"]]
        ELSE IF ~got.raised /\ answer_ok(synth.answer)
        THEN [response |-> synthesis_response(synth.answer, sources,
                               RMin(RAdd(rmax_of(top_scores), Rat(3, 10)), Rat(1, 1))),
              llm_service |-> got.service,
              trace |-> [tr EXCEPT !.site = "llm"]]
        ELSE [response |-> synthesis_response(context_extraction(relevant_contexts), sources,
                               rmax_of(top_scores)),
              llm_service |-> got.service,
              trace |-> [tr EXCEPT !.site = "context_extraction"]])))))

\* the part of the handler after a non-empty unique_matches
synthesis_branch(docs, service, query, max_results, matches, construct_ok, completion) ==
    Bind(slice_to(matches, Min2(max_results, Len(matches))), LAMBDA top :
    Bind(flatten([i \in 1..Len(top) |->
                    contexts_of(get_document(docs, top[i].id)[1], top[i].score)]),
         LAMBDA relevant_contexts :
    Bind([i \in 1..Len(top) |-> get_document(docs, top[i].id)[1].filename], LAMBDA sources :
        IF relevant_contexts # <<>>
        THEN synthesize_or_extract(docs, service, query, top, relevant_contexts, sources,
                                   construct_ok, completion)
        ELSE \* the else branch: its answer_parts are built from no context
             [response |-> synthesis_response(
                               <<"F","o","u","n","d"," ","s","o","m","e"," ","r","e","f","e","r","e","n","c",
                                 "e","s"," ","t","o"," ","'">> \o query
                               \o <<"'"," ","b","u","t"," ","c","o","u","l","d","n","'","t"," ","e","x","t",
                                    "r","a","c","t"," ","c","l","e","a","r"," ","i","n","f","o","r","m","a",
                                    "t","i","o","n",".">>, sources, Rat(2, 10)),
              llm_service |-> service,
              trace |-> [NoTrace EXCEPT !.site = "no_contexts", !.top = top]])))

\* query_documents: the response, the LLM singleton after the call and the handler's locals
query_documents(docs, service, query, max_results, construct_ok, completion) ==
    IF strip(query) = <<>>
    THEN \* HTTPException(400), raised before the try
         [response |-> [status |-> 400, detail |-> <<"Q","u","e","r","y"," ","c","a","n","n","o","t"," ","b",
                                                     "e"," ","e","m","p","t","y">>],
          llm_service |-> service,
          trace |-> [NoTrace EXCEPT !.site = "empty_query", !.escaped = TRUE]]
    ELSE IF get_all_documents(docs) = <<>>
    THEN [response |-> [status |-> 200, answer |-> NoDocumentsAnswer,
                        sources |-> <<>>, confidence |-> Rat(0, 1)],
          llm_service |-> service,
          trace |-> [NoTrace EXCEPT !.site = "no_documents"]]
    ELSE Bind(lexical_matcher(docs, query), LAMBDA matcher :
        IF matcher.raised
        THEN \* the outer except Exception
             [response |-> [status |-> 500, answer |-> ErrorAnswer, sources |-> <<>>,
                            confidence |-> Rat(0, 1), error |-> <<"d","i","v","i","s","i","o","n"," ","b","y",
                                                                  " ","z","e","r","o">>],
              llm_service |-> service,
              trace |-> [NoTrace EXCEPT !.site = "error"]]
        ELSE Bind(IF matcher.unique_matches = <<>>
                  THEN no_match_branch(docs, service, query, construct_ok, completion)
                  ELSE synthesis_branch(docs, service, query, max_results,
                                        matcher.unique_matches, construct_ok, completion),
                  LAMBDA r : [r EXCEPT !.trace.unique_matches = matcher.unique_matches]))

\* ------------------------------------ app/routes.py: the document endpoints
\* where the chunk of the inline chunker that starts at `start` ends
upload_chunk_end(text, start) ==
    Bind(start + upload_chunk_size, LAMBDA end0 :
        IF end0 < Len(text)
        THEN Bind(rfind(text, ".", start, end0), LAMBDA sentence_end :
                 IF sentence_end > start + upload_chunk_size \div 2 THEN sentence_end + 1
                 ELSE Bind(rfind(text, " ", start, end0), LAMBDA word_end_ :
                          IF word_end_ > start + upload_chunk_size \div 2 THEN word_end_
                          ELSE end0))
        ELSE end0)

\* the inline chunking loop of upload_document, over the raw text
upload_chunk_loop(text, first) ==
    Bind(text, LAMBDA t :
        LET from[start \in 0..(Len(t) + upload_chunk_size)] ==
                IF ~(start < Len(t)) THEN <<>>
                ELSE Bind(upload_chunk_end(t, start), LAMBDA end_ :
                        (IF strip(py_slice(t, start, end_)) # <<>>
                         THEN <<strip(py_slice(t, start, end_))>> ELSE <<>>)
                        \o from[IF end_ - upload_chunk_overlap >= end_ THEN end_
                                ELSE end_ - upload_chunk_overlap])
        IN from[first])

new_id(n) == <<"uuid", n + 1>>

\* upload_document: store the text and chunk it inline, without embeddings
upload_document(docs, chs, n, file) ==
    IF strip(file.content) = <<>>
    THEN [documents |-> docs, chunks |-> chs, next_id |-> n, status |-> 400]
    ELSE Bind(store_document(docs, chs, new_id(n), file.filename, file.content), LAMBDA stored :
            [documents |-> set_doc_chunks(stored.documents, new_id(n),
                                          upload_chunk_loop(file.content, 0)),
             chunks |-> stored.chunks, next_id |-> n + 1, status |-> 200])

\* upload_and_process_document: store the text, then process it with embeddings
upload_and_process_document(docs, chs, n, processor, file, construct_ok, encode) ==
    IF strip(file.content) = <<>>
    THEN [documents |-> docs, chunks |-> chs, next_id |-> n,
          document_processor |-> processor, status |-> 400]
    ELSE Bind(store_document(docs, chs, new_id(n), file.filename, file.content), LAMBDA stored :
         Bind(get_document_processor(processor, construct_ok), LAMBDA got :
            IF got.raised
            THEN [documents |-> stored.documents, chunks |-> stored.chunks, next_id |-> n + 1,
                  document_processor |-> got.processor, status |-> 500]
            ELSE Bind(process_document(stored.documents, stored.chunks, new_id(n), encode),
                      LAMBDA done :
                    [documents |-> done.documents, chunks |-> done.chunks, next_id |-> n + 1,
                     document_processor |-> got.processor,
                     status |-> IF done.result
                                   /\ get_document(done.documents, new_id(n)) # <<>>
                                   /\ get_document(done.documents, new_id(n))[1].chunks # <<>>
                                THEN 200 ELSE 500])))

\* DocumentStorage.get_chunks
get_chunks(chs, doc_id) ==
    IF doc_id \in chunk_keys(chs)
    THEN chs[CHOOSE i \in 1..Len(chs) : chs[i][1] = doc_id][2]
    ELSE <<>>

\* any(chunk.embedding for chunk in stored_chunks): a non-empty list is truthy
any_embedding(stored_chunks) ==
    \E i \in 1..Len(stored_chunks) :
        stored_chunks[i].embedding # <<>> /\ stored_chunks[i].embedding[1].dim > 0

\* get_document_status: 404 for a missing document, else what the document looks like
get_document_status(docs, chs, doc_id) ==
    IF get_document(docs, doc_id) = <<>> THEN [status |-> 404]
    ELSE Bind(get_document(docs, doc_id)[1], LAMBDA document :
         Bind(document.chunks # <<>> /\ get_chunks(chs, doc_id) # <<>>
                  /\ any_embedding(get_chunks(chs, doc_id)), LAMBDA has_embeddings :
            [status |-> 200,
             state |-> IF has_embeddings THEN "processed"
                       ELSE IF Len(document.chunks) > 0 THEN "uploaded" ELSE "stored",
             chunks_count |-> Len(document.chunks),
             has_embeddings |-> has_embeddings]))

\* the process endpoint without its `if not document` test
process_document_endpoint_unchecked(docs, chs, processor, doc_id, construct_ok, encode) ==
    IF get_chunks(chs, doc_id) # <<>> /\ any_embedding(get_chunks(chs, doc_id))
    THEN [documents |-> docs, chunks |-> chs, document_processor |-> processor, status |-> 200]
    ELSE Bind(get_document_processor(processor, construct_ok), LAMBDA got :
        IF got.raised
        THEN [documents |-> docs, chunks |-> chs, document_processor |-> processor,
              status |-> 500]
        ELSE Bind(process_document(docs, chs, doc_id, encode), LAMBDA done :
                [documents |-> done.documents, chunks |-> done.chunks,
                 document_processor |-> got.processor,
                 status |-> IF done.result THEN 200 ELSE 500]))

\* process_document_endpoint
process_document_endpoint(docs, chs, processor, doc_id, construct_ok, encode) ==
    IF get_document(docs, doc_id) = <<>>
    THEN [documents |-> docs, chunks |-> chs, document_processor |-> processor, status |-> 404]
    ELSE IF get_chunks(chs, doc_id) # <<>> /\ any_embedding(get_chunks(chs, doc_id))
    THEN [documents |-> docs, chunks |-> chs, document_processor |-> processor, status |-> 200]
    ELSE Bind(get_document_processor(processor, construct_ok), LAMBDA got :
        IF got.raised
        THEN [documents |-> docs, chunks |-> chs, document_processor |-> processor,
              status |-> 500]
        ELSE Bind(process_document(docs, chs, doc_id, encode), LAMBDA done :
                [documents |-> done.documents, chunks |-> done.chunks,
                 document_processor |-> got.processor,
                 status |-> IF done.result THEN 200 ELSE 500]))

\* ----------------------------------------------------------------- inputs
\* the files a client uploads
Files ==
    { [filename |-> <<"a",".","t","x","t">>, content |-> <<"P","a","r","i","s"," ","F","r","a","n","c","e","."," ","#"," ",
                                            "n","a","m","e">>],
      [filename |-> <<"b",".","t","x","t">>, content |-> <<"W","h","i","c","h"," ","f","r","a","n","c","e"," ","p","a","r",
                                            "i","s"," ","p","a","r","i","s">>],
      [filename |-> <<"c",".","t","x","t">>, content |-> <<" ","\n">>] }

\* the query texts a client sends
Queries ==
    { <<"p","a","r","i","s"," ","f","r","a","n","c","e">>, <<"w","h","a","t"," ","n","a","m","e">>, <<"W","h","o">>, <<"i","s"," ","i","t">>, <<"p","a","r","i","s","i","a","n">>, <<" "," ">> }

\* the ways the completion provider call may end
Completions ==
    { [kind |-> "reply", text |-> <<"I","t"," ","i","s"," ","P","a","r","i","s",".">>],
      [kind |-> "reply", text |-> <<"P","a","r","i","s">>],
      [kind |-> "reply", text |-> <<"T","h","e","r","e"," ","i","s"," ","N","o"," ","R","e","l","e","v","a",
                                    "n","t"," ","I","n","f","o","r","m","a","t","i","o","n",".">>],
      [kind |-> "error", text |-> <<"t","i","m","e","o","u","t">>] }

\* the query embeddings a vector search is given
QueryVectors ==
    { [dim |-> ModelDim, head |-> <<1, 0>>],
      [dim |-> ModelDim, head |-> <<4, 3>>],
      ZeroVector }

\* an id no document was stored under
UnknownId == <<"uuid", 0>>

\* whether constructing a singleton succeeds, read only while it is None
ConstructOutcomes(singleton) == IF singleton = "None" THEN BOOLEAN ELSE {TRUE}

NoRequest == [op |-> "none"]
NoResponse == [status |-> 0]

\* ---------------------------------------------------------------- actions
\* no handler is running: the event loop runs one handler body at a time, to its return
Idle == request = NoRequest

Init ==
    /\ documents = <<>>
    /\ chunks = <<>>
    /\ next_id = 0
    /\ document_processor = "None"
    /\ llm_service = "None"
    /\ request = NoRequest
    /\ response = NoResponse
    /\ trace = NoTrace

UploadDocument ==
    \E file \in Files :
        /\ Idle
        /\ next_id < MaxUploads
        /\ \E r \in {upload_document(documents, chunks, next_id, file)} :
              /\ documents' = r.documents
              /\ chunks' = r.chunks
              /\ next_id' = r.next_id
              /\ response' = [status |-> r.status]
        /\ request' = [op |-> "upload"]
        /\ trace' = NoTrace
        /\ UNCHANGED <<document_processor, llm_service>>

UploadAndProcess ==
    \E file \in Files, construct_ok \in ConstructOutcomes(document_processor) :
      \E encode \in EncodeOutcomes(Len(chunk_text(file.content))) :
        /\ Idle
        /\ next_id < MaxUploads
        /\ \E r \in {upload_and_process_document(documents, chunks, next_id,
                                                 document_processor, file, construct_ok, encode)} :
              /\ documents' = r.documents
              /\ chunks' = r.chunks
              /\ next_id' = r.next_id
              /\ document_processor' = r.document_processor
              /\ response' = [status |-> r.status]
        /\ request' = [op |-> "upload_and_process"]
        /\ trace' = NoTrace
        /\ UNCHANGED llm_service

ProcessDocument ==
    \E doc_id \in doc_ids(documents) \cup {UnknownId}, construct_ok \in ConstructOutcomes(document_processor) :
      \E encode \in EncodeOutcomes(IF get_document(documents, doc_id) = <<>> THEN 0
                                   ELSE Len(chunk_text(get_document(documents, doc_id)[1].content))) :
        /\ Idle
        /\ \E r \in {process_document_endpoint(documents, chunks, document_processor,
                                               doc_id, construct_ok, encode)} :
              /\ documents' = r.documents
              /\ chunks' = r.chunks
              /\ document_processor' = r.document_processor
              /\ response' = [status |-> r.status]
        /\ request' = [op |-> "process", document_id |-> doc_id]
        /\ trace' = NoTrace
        /\ UNCHANGED <<next_id, llm_service>>

DeleteDocument ==
    \E doc_id \in doc_ids(documents) \cup {UnknownId} :
        /\ Idle
        /\ \E r \in {delete_document(documents, chunks, doc_id)} :
              /\ documents' = r.documents
              /\ chunks' = r.chunks
              /\ response' = [status |-> IF r.result THEN 200 ELSE 404]
        /\ request' = [op |-> "delete", document_id |-> doc_id]
        /\ trace' = NoTrace
        /\ UNCHANGED <<next_id, document_processor, llm_service>>

QueryDocuments ==
    \E query \in Queries, max_results \in -1..MaxResults,
       construct_ok \in ConstructOutcomes(llm_service), completion \in Completions :
        /\ Idle
        /\ \E r \in {query_documents(documents, llm_service, query, max_results,
                                     construct_ok, completion)} :
              /\ response' = r.response
              /\ llm_service' = r.llm_service
              /\ trace' = r.trace
        /\ request' = [op |-> "query", query |-> query, max_results |-> max_results]
        /\ UNCHANGED <<documents, chunks, next_id, document_processor>>

\* DocumentStorage.search_chunks_by_similarity, called on the store
SearchChunks ==
    \E query_embedding \in QueryVectors, max_results \in 1..MaxResults :
        /\ Idle
        /\ response' = [status |-> 200,
                        results |-> search_chunks_by_similarity(chunks, query_embedding,
                                                                max_results)]
        /\ request' = [op |-> "search", query_embedding |-> query_embedding,
                       max_results |-> max_results]
        /\ trace' = NoTrace
        /\ UNCHANGED <<documents, chunks, next_id, document_processor, llm_service>>

\* the handler's return value is sent and its locals are gone
SendResponse ==
    /\ ~Idle
    /\ request' = NoRequest
    /\ response' = NoResponse
    /\ trace' = NoTrace
    /\ UNCHANGED <<documents, chunks, next_id, document_processor, llm_service>>

Next ==
    \/ UploadDocument
    \/ UploadAndProcess
    \/ ProcessDocument
    \/ DeleteDocument
    \/ QueryDocuments
    \/ SearchChunks
    \/ SendResponse

Spec == Init /\ [][Next]_vars

\* ------------------------------------------ requests in flight on the event loop
\* The handlers are coroutines of one event loop (main.py: uvicorn.run of one app). The
\* body of query_documents and search_chunks_by_similarity have no await, so each runs
\* in one piece; other handlers run between the arrival of a request and the start of its
\* handler (main.py:31, await call_next).

\* a query has arrived and its handler has not started
AcceptQuery ==
    \E query \in Queries, max_results \in 1..MaxResults :
        /\ Idle
        /\ request' = [op |-> "query", stage |-> "accepted", query |-> query,
                       max_results |-> max_results, gone |-> {}]
        /\ UNCHANGED <<documents, chunks, next_id, document_processor, llm_service,
                       response, trace>>

\* a vector search has been asked for and has not started
AcceptSearch ==
    \E query_embedding \in QueryVectors, max_results \in 1..MaxResults :
        /\ Idle
        /\ request' = [op |-> "search", stage |-> "accepted",
                       query_embedding |-> query_embedding,
                       max_results |-> max_results, gone |-> {}]
        /\ UNCHANGED <<documents, chunks, next_id, document_processor, llm_service,
                       response, trace>>

\* the requests that name one document
DocOps == {"delete", "process", "status"}

\* a delete, process or status request for a document has arrived
AcceptDocRequest ==
    \E op \in DocOps, doc_id \in doc_ids(documents) \cup {UnknownId} :
        /\ Idle
        /\ request' = [op |-> op, stage |-> "accepted", document_id |-> doc_id, gone |-> {}]
        /\ UNCHANGED <<documents, chunks, next_id, document_processor, llm_service,
                       response, trace>>

\* whether a request is waiting for its handler
InFlight ==
    request.op \in {"query", "search"} \cup DocOps /\ request.stage = "accepted"

\* the delete handler runs to completion while the request waits
DeleteInFlight ==
    \E doc_id \in doc_ids(documents) :
        /\ InFlight
        /\ \E r \in {delete_document(documents, chunks, doc_id)} :
              /\ documents' = r.documents
              /\ chunks' = r.chunks
              /\ request' = [request EXCEPT !.gone = IF r.result THEN @ \cup {doc_id} ELSE @]
        /\ UNCHANGED <<next_id, document_processor, llm_service, response, trace>>

\* the body of query_documents, on the store as it is when the handler starts
RunQuery ==
    \E construct_ok \in ConstructOutcomes(llm_service), completion \in Completions :
        /\ InFlight
        /\ request.op = "query"
        /\ \E r \in {query_documents(documents, llm_service, request.query,
                                     request.max_results, construct_ok, completion)} :
              /\ response' = r.response
              /\ llm_service' = r.llm_service
              /\ trace' = r.trace
        /\ request' = [request EXCEPT !.stage = "returned"]
        /\ UNCHANGED <<documents, chunks, next_id, document_processor>>

\* the body of search_chunks_by_similarity, on the store as it is when it starts
RunSearch ==
    /\ InFlight
    /\ request.op = "search"
    /\ response' = [status |-> 200,
                    results |-> search_chunks_by_similarity(chunks, request.query_embedding,
                                                            request.max_results)]
    /\ request' = [request EXCEPT !.stage = "returned"]
    /\ trace' = NoTrace
    /\ UNCHANGED <<documents, chunks, next_id, document_processor, llm_service>>

\* what the handler of a delete, process or status request does to the store and returns
doc_request(op, docs, chs, processor, doc_id, construct_ok, encode) ==
    IF op = "delete"
    THEN Bind(delete_document(docs, chs, doc_id), LAMBDA r :
            [documents |-> r.documents, chunks |-> r.chunks, document_processor |-> processor,
             status |-> IF r.result THEN 200 ELSE 404])
    ELSE IF op = "process"
    THEN process_document_endpoint(docs, chs, processor, doc_id, construct_ok, encode)
    ELSE [documents |-> docs, chunks |-> chs, document_processor |-> processor,
          status |-> get_document_status(docs, chs, doc_id).status]

\* the body of delete_document, process_document_endpoint or get_document_status, on the
\* store as it is when the handler starts
RunDocRequest ==
    /\ InFlight
    /\ request.op \in DocOps
    /\ \E construct_ok \in ConstructOutcomes(document_processor) :
       \E encode \in EncodeOutcomes(
                        IF get_document(documents, request.document_id) = <<>> THEN 0
                        ELSE Len(chunk_text(
                                 get_document(documents, request.document_id)[1].content))) :
       \E r \in {doc_request(request.op, documents, chunks, document_processor,
                             request.document_id, construct_ok, encode)} :
          /\ documents' = r.documents
          /\ chunks' = r.chunks
          /\ document_processor' = r.document_processor
          /\ response' = [status |-> r.status]
    /\ request' = [request EXCEPT !.stage = "returned"]
    /\ UNCHANGED <<next_id, llm_service, trace>>

\* the returned value is sent, or an upload's response is
SendReturned ==
    /\ ~Idle
    /\ ~InFlight
    /\ request' = NoRequest
    /\ response' = NoResponse
    /\ trace' = NoTrace
    /\ UNCHANGED <<documents, chunks, next_id, document_processor, llm_service>>

RaceNext ==
    \/ UploadDocument
    \/ UploadAndProcess
    \/ AcceptQuery
    \/ AcceptSearch
    \/ AcceptDocRequest
    \/ DeleteInFlight
    \/ RunQuery
    \/ RunSearch
    \/ RunDocRequest
    \/ SendReturned

RaceSpec == Init /\ [][RaceNext]_vars

\* ------------------------------- DocumentProcessor.chunk_text, statement by statement
\* a text of `len` characters: "." at the 0-based positions `periods`, " " at `spaces`,
\* the letter a elsewhere
long_text(len, periods, spaces) ==
    [i \in 1..len |-> IF (i - 1) \in periods THEN "."
                      ELSE IF (i - 1) \in spaces THEN " " ELSE "a"]

\* `n` characters, a space and a # in turn
hash_run(n) == [i \in 1..n |-> IF i % 2 = 1 THEN " " ELSE "#"]

\* every text of at most `n` characters over `alphabet`
texts_upto(alphabet, n) == UNION {[1..k -> alphabet] : k \in 0..n}

\* the input texts of chunk_text: every short text over a, space, newline, # and period;
\* texts around chunk_size; texts of several chunks with and without places to cut; a
\* text whose middle normalizes to spaces only
ChunkTexts ==
    texts_upto({"a", " ", "\n", "#", "."}, MaxShortText)
    \cup {long_text(len, {}, {}) : len \in {450, 451, 499, 500, 501, 502}}
    \cup {long_text(500, {}, {}) \o <<" ","#">>, long_text(499, {}, {}) \o <<" ","b">>,
          <<"#"," ">> \o long_text(500, {}, {100, 300}),
          <<"a">> \o hash_run(1200) \o <<"a">>}
    \cup {long_text(len, periods, spaces) :
            len \in LongLengths,
            periods \in {{}, {251, 702}, {251, 500, 702, 951}, {100, 600}},
            spaces \in {{}, {453, 904}, {300, 499, 520}}}

\* the locals of chunk_text before its first statement
ChunkInit ==
    /\ documents = <<>>
    /\ chunks = <<>>
    /\ next_id = 0
    /\ document_processor = "None"
    /\ llm_service = "None"
    /\ response = NoResponse
    /\ \E text \in ChunkTexts :
          /\ request = [op |-> "chunk_text", text |-> text]
          /\ trace = [pc |-> "clean", text |-> text, start |-> 0, chunks |-> <<>>,
                      ranges |-> <<>>]

\* text = self._clean_text(text)
CleanText ==
    /\ request.op = "chunk_text"
    /\ trace.pc = "clean"
    /\ trace' = [trace EXCEPT !.text = clean_text(trace.text), !.pc = "test"]
    /\ UNCHANGED <<documents, chunks, next_id, document_processor, llm_service,
                   request, response>>

\* if len(text) <= self.chunk_size: return [text]; else chunks = [], start = 0
TestLength ==
    /\ request.op = "chunk_text"
    /\ trace.pc = "test"
    /\ IF fits_one_chunk(trace.text)
       THEN /\ trace' = [trace EXCEPT !.pc = "returned"]
            /\ response' = [status |-> 200, chunks |-> <<trace.text>>]
       ELSE /\ trace' = [trace EXCEPT !.pc = "loop", !.start = 0, !.chunks = <<>>]
            /\ UNCHANGED response
    /\ UNCHANGED <<documents, chunks, next_id, document_processor, llm_service, request>>

\* one iteration of `while start < len(text)`
LoopIteration ==
    /\ request.op = "chunk_text"
    /\ trace.pc = "loop"
    /\ trace.start < Len(trace.text)
    /\ \E end_ \in {chunk_end(trace.text, trace.start)} :
       \E chunk \in {chunk_of(trace.text, trace.start, end_)} :
          trace' = [trace EXCEPT
                      !.chunks = IF chunk # <<>> THEN Append(@, chunk) ELSE @,
                      !.ranges = Append(@, [start |-> trace.start, end_ |-> end_,
                                            kept |-> chunk # <<>>]),
                      !.start = next_start(end_)]
    /\ UNCHANGED <<documents, chunks, next_id, document_processor, llm_service,
                   request, response>>

\* the loop condition fails: return chunks
ReturnChunks ==
    /\ request.op = "chunk_text"
    /\ trace.pc = "loop"
    /\ ~(trace.start < Len(trace.text))
    /\ trace' = [trace EXCEPT !.pc = "returned"]
    /\ response' = [status |-> 200, chunks |-> trace.chunks]
    /\ UNCHANGED <<documents, chunks, next_id, document_processor, llm_service, request>>

ChunkNext ==
    \/ CleanText
    \/ TestLength
    \/ LoopIteration
    \/ ReturnChunks

ChunkSpec == ChunkInit /\ [][ChunkNext]_vars

\* --------------------------- DocumentStorage.search_chunks_by_similarity on given stores
\* what DocumentChunk.embedding can be: None, the zero vector of the fallback, a vector
SearchEmbeddings == {<<>>} \cup {<<v>> : v \in ModelVectors \cup {ZeroVector}}

\* the DocumentChunk list of doc_id whose embeddings are embs[from_..to_]
chunks_with(doc_id, embs, from_, to_) ==
    [i \in 1..(to_ - from_ + 1) |->
        [document_id |-> doc_id, chunk_index |-> i - 1, content |-> <<"P","a","r","i","s">>,
         embedding |-> embs[from_ + i - 1]]]

\* the store after store_document and store_chunks for two documents: the first holds the
\* chunks with the first `cut` of the embeddings `embs`, the second those with the rest
search_store(embs, cut) ==
    Bind(store_document(<<>>, <<>>, new_id(0), <<"a",".","t","x","t">>, <<"P","a","r","i","s">>), LAMBDA one :
    Bind(store_document(one.documents, one.chunks, new_id(1), <<"b",".","t","x","t">>, <<"P","a","r","i","s">>), LAMBDA two :
    Bind(store_chunks(two.documents, two.chunks, new_id(0),
                      chunks_with(new_id(0), embs, 1, cut)), LAMBDA first :
        store_chunks(first.documents, first.chunks, new_id(1),
                     chunks_with(new_id(1), embs, cut + 1, Len(embs))))))

\* a store of two documents with up to MaxSearchChunks chunks stored through store_chunks
SearchInit ==
    /\ next_id = 2
    /\ document_processor = "None"
    /\ llm_service = "None"
    /\ request = NoRequest
    /\ response = NoResponse
    /\ trace = NoTrace
    /\ \E embs \in texts_upto(SearchEmbeddings, MaxSearchChunks) :
       \E cut \in 0..Len(embs) :
       \E store \in {search_store(embs, cut)} :
          /\ documents = store.documents
          /\ chunks = store.chunks

SearchNext ==
    \/ SearchChunks
    \/ SendResponse

SearchSpec == SearchInit /\ [][SearchNext]_vars

\* ------------------------------------ the embedding calls, with the provider failing
\* the texts of the documents the embedding calls are tried on: one, two and three chunks
EmbedTexts ==
    {f.content : f \in {g \in Files : strip(g.content) # <<>>}}
    \cup {long_text(len, {251}, {453}) : len \in {600, 702, 1000}}

\* a store holding one uploaded document, not processed yet
EmbedInit ==
    /\ next_id = 1
    /\ document_processor = "None"
    /\ llm_service = "None"
    /\ request = NoRequest
    /\ response = NoResponse
    /\ trace = NoTrace
    /\ \E content \in EmbedTexts :
       \E store \in {store_document(<<>>, <<>>, new_id(0), <<"a",".","t","x","t">>, content)} :
          /\ documents = store.documents
          /\ chunks = store.chunks

\* process_document_endpoint, the outcome of the encode call kept with the request
ProcessWithEncode ==
    \E doc_id \in doc_ids(documents), construct_ok \in ConstructOutcomes(document_processor) :
      \E encode \in EncodeOutcomes(Len(chunk_text(get_document(documents, doc_id)[1].content))) :
        /\ Idle
        /\ \E r \in {process_document_endpoint(documents, chunks, document_processor,
                                               doc_id, construct_ok, encode)} :
              /\ documents' = r.documents
              /\ chunks' = r.chunks
              /\ document_processor' = r.document_processor
              /\ response' = [status |-> r.status]
        /\ request' = [op |-> "process", document_id |-> doc_id, encode |-> encode.kind,
                       constructed |-> construct_ok,
                       processed_before |-> any_embedding(get_chunks(chunks, doc_id))]
        /\ trace' = NoTrace
        /\ UNCHANGED <<next_id, llm_service>>

\* services_health_check: the processor is asked for the embedding of "test"
ServicesHealthCheck ==
    \E construct_ok \in ConstructOutcomes(document_processor), encode \in EncodeOutcomes(1),
       llm_ok \in ConstructOutcomes(llm_service) :
        /\ Idle
        /\ \E got \in {get_document_processor(document_processor, construct_ok)} :
              /\ document_processor' = got.processor
              /\ response' =
                    [status |-> 200,
                     document_processor |->
                        IF got.raised THEN [status |-> "unhealthy"]
                        ELSE [status |-> "healthy",
                              embedding_dimension |->
                                  generate_query_embedding(<<"t","e","s","t">>, encode).dim,
                              test_embedding |-> generate_query_embedding(<<"t","e","s","t">>, encode)]]
        /\ llm_service' = get_llm_service(llm_service, llm_ok).service
        /\ request' = [op |-> "health", encode |-> encode.kind, constructed |-> construct_ok]
        /\ trace' = NoTrace
        /\ UNCHANGED <<documents, chunks, next_id>>

EmbedNext ==
    \/ ProcessWithEncode
    \/ ServicesHealthCheck
    \/ SendResponse

EmbedSpec == EmbedInit /\ [][EmbedNext]_vars

\* ------------------------------------------------ queries of one long token
\* queries whose token list is one token longer than 4 characters, and queries that just
\* miss that: two tokens, a token of 4 characters, a token with synonyms
FuzzyQueries ==
    { <<"p","a","r","i","s","i","a","n">>, <<"F","r","a","n","c","e","s">>, <<"h","e","l","l","o">>, <<"p","a","r","i","s","i","a","n","s"," ","f","r","a","n","c","e",
                                           "s">>, <<"p","a","r","s">>, <<"s","c","h","o","o","l">> }

\* query_documents for one of the fuzzy queries
FuzzyQuery ==
    \E query \in FuzzyQueries, max_results \in 1..MaxResults,
       construct_ok \in ConstructOutcomes(llm_service), completion \in Completions :
        /\ Idle
        /\ \E r \in {query_documents(documents, llm_service, query, max_results,
                                     construct_ok, completion)} :
              /\ response' = r.response
              /\ llm_service' = r.llm_service
              /\ trace' = r.trace
        /\ request' = [op |-> "query", query |-> query, max_results |-> max_results]
        /\ UNCHANGED <<documents, chunks, next_id, document_processor>>

FuzzyNext ==
    \/ UploadDocument
    \/ FuzzyQuery
    \/ SendResponse

FuzzySpec == Init /\ [][FuzzyNext]_vars

\* ------------------- the inline chunker of upload_document, then the processing of the
\* ------------------- uploaded document
\* the texts uploaded: the inputs of chunk_text that upload_document does not reject
InlineTexts == {text \in ChunkTexts : strip(text) # <<>>}

\* an empty store and a file about to be uploaded
InlineInit ==
    /\ documents = <<>>
    /\ chunks = <<>>
    /\ next_id = 0
    /\ document_processor = "None"
    /\ llm_service = "None"
    /\ response = NoResponse
    /\ trace = NoTrace
    /\ \E text \in InlineTexts : request = [op |-> "upload", stage |-> "sent", text |-> text]

\* upload_document on the file: the response reports len(chunks) of the inline chunker
InlineUpload ==
    /\ request.op = "upload"
    /\ request.stage = "sent"
    /\ \E r \in {upload_document(documents, chunks, next_id,
                                 [filename |-> <<"t",".","t","x","t">>, content |-> request.text])} :
          /\ documents' = r.documents
          /\ chunks' = r.chunks
          /\ next_id' = r.next_id
          /\ response' = [status |-> r.status,
                          chunks_created |-> Len(get_document(r.documents, new_id(0))[1].chunks)]
    /\ request' = [request EXCEPT !.stage = "uploaded"]
    /\ UNCHANGED <<document_processor, llm_service, trace>>

\* process_document_endpoint on the uploaded document: the response reports
\* len(stored_chunks)
InlineProcess ==
    /\ request.op = "upload"
    /\ request.stage = "uploaded"
    /\ \E construct_ok \in ConstructOutcomes(document_processor) :
       \E encode \in EncodeOutcomes(Len(chunk_text(request.text))) :
       \E r \in {process_document_endpoint(documents, chunks, document_processor,
                                           new_id(0), construct_ok, encode)} :
          /\ documents' = r.documents
          /\ chunks' = r.chunks
          /\ document_processor' = r.document_processor
          /\ response' = [status |-> r.status,
                          chunks_created |-> Len(get_chunks(r.chunks, new_id(0))),
                          uploaded |-> response.chunks_created]
    /\ request' = [request EXCEPT !.stage = "processed"]
    /\ UNCHANGED <<next_id, llm_service, trace>>

InlineNext ==
    \/ InlineUpload
    \/ InlineProcess

InlineSpec == InlineInit /\ [][InlineNext]_vars

\* ------------------------------------------------------------ properties
\* a query handler has returned and its response is not yet sent
Queried == request.op = "query"

\* the query handler went through the lexical matcher
Matched == Queried /\ trace.site \notin {"empty_query", "no_documents", "error"}

InUnit(r) == RLe(Rat(0, 1), r) /\ RLe(r, Rat(1, 1))

\* the terminal outcomes of a query, by return site
NoDocumentsSites == {"no_documents"}
LLMAnswerSites == {"llm", "llm_no_match"}
FallbackSites == {"context_extraction", "no_contexts", "synthesis_error"}
NoMatchSites == {"overview"}

\* whether the stored document `doc` has the lowercased query as a substring
ExactIn(doc) == substr_in(lower(request.query), lower(doc.content))

\* the stored document a match refers to
DocOf(m) == documents[CHOOSE i \in 1..Len(documents) : documents[i].id = m.id]

\* the matches the answer is built from: the first min(max_results, len) of the ranked list
Selected ==
    slice_to(trace.unique_matches, Min2(request.max_results, Len(trace.unique_matches)))

\* C1: every non-empty query, whatever the provider and the service construction do, ends at
\* one terminal outcome (no-documents, LLM answer, fallback or no-match answer) with status
\* 200, an answer, a sources list and a confidence in [0,1], and no exception escapes
C1_QueryAlwaysAnswers ==
    (Queried /\ strip(request.query) # <<>>) =>
        /\ response.status = 200
        /\ ~trace.escaped
        /\ trace.site \in NoDocumentsSites \cup LLMAnswerSites \cup FallbackSites \cup NoMatchSites
        /\ DOMAIN response = {"status", "answer", "sources", "confidence"}
        /\ response.answer # <<>>
        /\ DOMAIN response.sources = 1..Len(response.sources)
        /\ InUnit(response.confidence)

\* a query answered although the LLM service could not be constructed
C1_Witness ==
    /\ Queried
    /\ trace.service_raised
    /\ trace.site = "context_extraction"
    /\ response.status = 200

\* C2: with at least one match and max_results >= 1 the confidence is min(1, m + 0.3) when
\* the provider's answer is accepted and m when the route falls back to concatenation, m
\* being the highest score of the selected matches; a failed provider always falls back
C2_ConfidenceFromTopScore ==
    (Matched /\ trace.unique_matches # <<>> /\ request.max_results >= 1) =>
        /\ response.status = 200
        /\ response.answer # <<>>
        /\ trace.site \in {"llm", "context_extraction"}
        /\ trace.site = "llm" =>
              /\ trace.provider = "reply"
              /\ response.confidence =
                     RMin(Rat(1, 1), RAdd(rmax_of([i \in 1..Len(Selected) |-> Selected[i].score]),
                                          Rat(3, 10)))
        /\ trace.site = "context_extraction" =>
              response.confidence = rmax_of([i \in 1..Len(Selected) |-> Selected[i].score])
        /\ (trace.provider = "error" \/ trace.service_raised) => trace.site = "context_extraction"

\* the provider call failed for a query with a match below 1.0: the raw score is returned
C2_Witness ==
    /\ Matched
    /\ request.max_results >= 1
    /\ trace.provider = "error"
    /\ trace.site = "context_extraction"
    /\ response.confidence = Rat(4, 10)

\* C3: when the provider call fails, no returned answer carries the 'LLM synthesis
\* unavailable' marker and the response is not given the confidence of an LLM answer
C3_MarkerNeverReturned ==
    (Queried /\ trace.provider = "error") =>
        /\ ~substr_in(UnavailableMarker, response.answer)
        /\ trace.site \notin LLMAnswerSites

\* C4: every document containing the lowercased query is ranked with score 1.0, and no
\* document without the exact phrase is ranked ahead of it
C4_ExactPhraseFirst ==
    Matched =>
        \A i \in 1..Len(documents) :
            ExactIn(documents[i]) =>
                \E k \in 1..Len(trace.unique_matches) :
                    /\ trace.unique_matches[k].id = documents[i].id
                    /\ trace.unique_matches[k].score = Rat(1, 1)
                    /\ \A j \in 1..(k - 1) : ExactIn(DocOf(trace.unique_matches[j]))

\* an exact match stored second is ranked ahead of a word match that also scores 1.0
C4_Witness ==
    /\ Matched
    /\ Len(trace.unique_matches) = 2
    /\ Len(documents) = 2
    /\ trace.unique_matches[1].id = documents[2].id
    /\ ExactIn(documents[2])
    /\ ~ExactIn(documents[1])
    /\ trace.unique_matches[2].score = Rat(1, 1)

\* the query's own tokens: its lowercased words longer than 2 characters
OwnTokens == {w \in Range(split(lower(request.query))) : Len(w) > 2}

\* the tokens the matcher scans for: the own tokens and their synonym expansions
ScannedTokens == query_words(request.query)

\* the tokens of `tokens` that occur in the stored document `doc`
FoundIn(doc, tokens) == {w \in tokens : substr_in(w, lower(doc.content))}

\* 0.7 * (found / all) + min(0.3, occurrences of the found tokens / 10)
OverlapScore(content_lower, found, tokens) ==
    RAdd(RMul(Rat(Cardinality(found), Cardinality(tokens)), Rat(7, 10)),
         RMin(Rat(3, 10), Rat(sum_counts(content_lower, found), 10)))

\* the ranked entry of `doc` is `score`
RankedAt(doc, score) ==
    \E k \in 1..Len(trace.unique_matches) :
        trace.unique_matches[k].id = doc.id /\ trace.unique_matches[k].score = score

\* every document with one of `tokens` and no exact phrase is ranked at the overlap score
\* over `tokens`, a value in (0, 1]
RankedAtOverlapOf(tokens) ==
    \A i \in 1..Len(documents) :
        \E content_lower \in {lower(documents[i].content)} :
        \E found \in {{w \in tokens : substr_in(w, content_lower)}} :
            (found # {} /\ ~ExactIn(documents[i])) =>
                \E score \in {OverlapScore(content_lower, found, tokens)} :
                    /\ RankedAt(documents[i], score)
                    /\ RLt(Rat(0, 1), score)
                    /\ RLe(score, Rat(1, 1))

\* C5 as stated: a document with one of the query's own tokens and no exact phrase scores
\* 0.7 * (own tokens found / own tokens) + min(0.3, occurrences / 10), a value in (0, 1]
C5_FractionOfOwnTokens ==
    Matched => \E tokens \in {OwnTokens} : RankedAtOverlapOf(tokens)

\* C5 amended: a document with one of the scanned tokens (the query's words longer than 2
\* characters and their synonym expansions) and no exact phrase scores 0.7 * (scanned tokens
\* found / scanned tokens) + min(0.3, occurrences of those / 10), a value in (0, 1]
C5_FractionOfScannedTokens ==
    Matched => \E tokens \in {ScannedTokens} : RankedAtOverlapOf(tokens)

\* a query whose expansion adds tokens: one own token of two found, the score is 1/5
C5_Witness ==
    /\ Matched
    /\ Cardinality(OwnTokens) = 2
    /\ Cardinality(ScannedTokens) > 2
    /\ \E i \in 1..Len(documents) :
          /\ Cardinality(FoundIn(documents[i], OwnTokens)) = 1
          /\ ~ExactIn(documents[i])
          /\ RankedAt(documents[i], Rat(1, 5))

\* the query has an interrogative cue
HasCue ==
    \E k \in 1..Len(question_indicators) :
        substr_in(question_indicators[k], lower(request.query))

\* C6: for a query with an interrogative cue and a non-empty store every stored document is
\* in the deduplicated list exactly once, so the list is not empty and the 0.5 step adds
\* nothing; a document in which none of the scanned tokens is found is there at exactly 0.4
C6_QuestionKeepsEveryDocument ==
    (Queried /\ HasCue /\ documents # <<>>) =>
        /\ Matched
        /\ trace.unique_matches # <<>>
        /\ \A i \in 1..Len(documents) :
              /\ Cardinality({k \in 1..Len(trace.unique_matches) :
                                trace.unique_matches[k].id = documents[i].id}) = 1
              /\ FoundIn(documents[i], ScannedTokens) = {} => RankedAt(documents[i], Rat(4, 10))

\* a question that finds a token in one document and none in the other
C6_Witness ==
    /\ Queried
    /\ HasCue
    /\ Len(documents) = 2
    /\ FoundIn(documents[1], ScannedTokens) = {}
    /\ FoundIn(documents[2], ScannedTokens) # {}
    /\ RankedAt(documents[1], Rat(4, 10))
    /\ trace.unique_matches[1].id = documents[1].id

\* the scores of the three strategies for one scan: exact, word, partial
ScoresOf(sc) == (IF sc.exact THEN <<Rat(1, 1)>> ELSE <<>>) \o sc.word \o sc.partial

\* the scan of the i-th stored document for this query
ScanOf(i) ==
    scan_document(documents[i], query_lower(request.query), ScannedTokens,
                  is_question(request.query))

\* C7: each document is in the match list at most once, with the highest score a strategy
\* gave it for this query
C7_OneEntryHighestScore ==
    Matched =>
        /\ \A j, k \in 1..Len(trace.unique_matches) :
              trace.unique_matches[j].id = trace.unique_matches[k].id => j = k
        /\ \A i \in 1..Len(documents) :
              \E sc \in {ScoresOf(ScanOf(i))} :
                  /\ sc # <<>> => RankedAt(documents[i], rmax_of(sc))
                  /\ sc = <<>> => ~\E k \in 1..Len(trace.unique_matches) :
                                      trace.unique_matches[k].id = documents[i].id

\* a document two strategies scored, 1.0 and 0.9, is ranked once at 1.0
C7_Witness ==
    /\ Matched
    /\ \E i \in 1..Len(documents) :
          /\ ScoresOf(ScanOf(i)) = <<Rat(1, 1), Rat(9, 10)>>
          /\ RankedAt(documents[i], Rat(1, 1))

\* where a match's document is in the store
StoredIndex(m) == CHOOSE i \in 1..Len(documents) : documents[i].id = m.id

\* the strategy that ranks a match: 1 exact phrase, 2 word overlap, 3 question or fuzzy
StrategyRank(m) ==
    IF ExactIn(DocOf(m)) THEN 1
    ELSE IF FoundIn(DocOf(m), ScannedTokens) # {} THEN 2
    ELSE 3

\* the selected list is what the ranked list starts with, has at most max_results entries,
\* is in descending score order and names the sources
SelectedDescending ==
    /\ trace.top = Selected
    /\ Len(trace.top) <= request.max_results
    /\ \A j, k \in 1..Len(trace.top) :
          j < k => RLe(trace.top[k].score, trace.top[j].score)
    /\ response.sources = [k \in 1..Len(trace.top) |-> DocOf(trace.top[k]).filename]

\* C8 as stated: the matches the answer and the sources are built from are in descending
\* score order, equal scores in the order the documents were stored, at most max_results
C8_TiesInStoredOrder ==
    (Matched /\ trace.unique_matches # <<>> /\ request.max_results >= 1) =>
        /\ SelectedDescending
        /\ \A j, k \in 1..Len(trace.top) :
              (j < k /\ trace.top[j].score = trace.top[k].score) =>
                  StoredIndex(trace.top[j]) < StoredIndex(trace.top[k])

\* C8 amended: descending score order, at most max_results entries, equal scores in the
\* order of the strategies (exact phrase, then word overlap, then question or fuzzy) and,
\* within one strategy, in the order the documents were stored
C8_TiesInStrategyOrder ==
    (Matched /\ trace.unique_matches # <<>> /\ request.max_results >= 1) =>
        /\ SelectedDescending
        /\ \A j, k \in 1..Len(trace.top) :
              (j < k /\ trace.top[j].score = trace.top[k].score) =>
                  \/ StrategyRank(trace.top[j]) < StrategyRank(trace.top[k])
                  \/ /\ StrategyRank(trace.top[j]) = StrategyRank(trace.top[k])
                     /\ StoredIndex(trace.top[j]) < StoredIndex(trace.top[k])

\* two selected matches tie at 1.0 and the one stored later comes first
C8_Witness ==
    /\ Matched
    /\ request.max_results = 2
    /\ Len(trace.top) = 2
    /\ trace.top[1].score = trace.top[2].score
    /\ StoredIndex(trace.top[1]) > StoredIndex(trace.top[2])

\* every word of the query has at most 2 characters
OnlyShortWords == \A w \in Range(split(lower(request.query))) : Len(w) <= 2

\* C9: for a query without a cue whose words all have at most 2 characters, only documents
\* containing the lowercased query are ranked, so the list is empty when none contains it,
\* and the handler does not fail on the empty token list
C9_ShortWordsScoreNothing ==
    (Queried /\ ~HasCue /\ OnlyShortWords /\ strip(request.query) # <<>> /\ documents # <<>>) =>
        /\ Matched
        /\ response.status = 200
        /\ \A k \in 1..Len(trace.unique_matches) : ExactIn(DocOf(trace.unique_matches[k]))
        /\ (\A i \in 1..Len(documents) : ~ExactIn(documents[i])) =>
              (trace.unique_matches = <<>> /\ trace.site \in {"llm_no_match", "overview"})

\* such a query against two documents that do not contain it: nothing is ranked
C9_Witness ==
    /\ Queried
    /\ ~HasCue
    /\ OnlyShortWords
    /\ strip(request.query) # <<>>
    /\ Len(documents) = 2
    /\ trace.unique_matches = <<>>
    /\ trace.site = "overview"

\* C10: an answer produced from zero candidate chunks is the fixed 'no relevant information
\* found' answer with confidence 0.0, and the completion provider is not called
C10_NoChunksFixedAnswer ==
    (Matched /\ trace.contexts = 0) =>
        /\ response.answer = NoRelevantInformation
        /\ response.confidence = Rat(0, 1)
        /\ trace.provider = "not_called"

\* a vector search has returned and its result is not yet sent
Searched == request.op = "search"

\* a delete has returned true and its response is not yet sent
Deleted == request.op = "delete" /\ response.status = 200

\* the document ids the chunks of the chunk map carry
chunk_document_ids(chs) ==
    {get_all_chunks(chs)[i].document_id : i \in 1..Len(get_all_chunks(chs))}

\* the documents a returned query ranked, and those a returned vector search gave chunks of
ReturnedIds ==
    IF Queried /\ Matched THEN {trace.unique_matches[k].id : k \in 1..Len(trace.unique_matches)}
    ELSE IF Searched THEN {response.results[k].document_id : k \in 1..Len(response.results)}
    ELSE {}

\* every chunk of the chunk map is stored under the id of a stored document, and what a
\* query or a vector search returned refers to stored documents only; a query that is not
\* empty and a vector search answer with status 200
NoDanglingChunk ==
    /\ chunk_keys(chunks) \subseteq doc_ids(documents)
    /\ chunk_document_ids(chunks) \subseteq doc_ids(documents)
    /\ ReturnedIds \subseteq doc_ids(documents)
    /\ ((Queried /\ strip(request.query) # <<>>) \/ Searched) => response.status = 200

\* the ids given out so far that are no longer stored
GoneIds == {new_id(n) : n \in 0..(next_id - 1)} \ doc_ids(documents)

\* a delete that returns true takes the id out of both maps and leaves every other entry
\* as it was
DeleteRemoves ==
    Deleted' =>
        /\ request'.document_id \in doc_ids(documents)
        /\ request'.document_id \notin doc_ids(documents') \cup chunk_keys(chunks')
        /\ documents' = SelectSeq(documents, LAMBDA d : d.id # request'.document_id)
        /\ chunks' = SelectSeq(chunks, LAMBDA e : e[1] # request'.document_id)

\* C11: once delete_document(id) has returned true the id is in neither map and stays out
\* of both, no chunk is stored under a missing document, every later query or vector search
\* answers with status 200 and returns nothing of a removed document, and the delete leaves
\* the other documents and their chunks unchanged
C11_DeleteLeavesNothing ==
    [][/\ DeleteRemoves
       /\ GoneIds \subseteq GoneIds'
       /\ NoDanglingChunk'
       /\ ReturnedIds' \cap GoneIds' = {}]_vars

\* a vector search returns chunks after a processed document was deleted and another stays
C11_Witness ==
    /\ Searched
    /\ response.results # <<>>
    /\ GoneIds # {}
    /\ documents # <<>>

\* a request that was waiting while deletes completed has returned
ReturnedAfterAccept == request.op \in {"query", "search"} /\ request.stage = "returned"

\* C12: a query or vector search that is in flight while delete_document(id) completes
\* returns without an error (status 200 for a query that is not empty) and what it returns
\* after the delete names neither the deleted document nor any of its chunks
C12_InFlightExcludesDeleted ==
    ReturnedAfterAccept =>
        /\ (request.op = "search" \/ strip(request.query) # <<>>) => response.status = 200
        /\ request.op = "query" => trace.escaped = (strip(request.query) = <<>>)
        /\ ReturnedIds \cap request.gone = {}
        /\ ReturnedIds \subseteq doc_ids(documents)

\* a search returned chunks of the document that stays after another was deleted in flight
C12_Witness ==
    /\ ReturnedAfterAccept
    /\ request.gone # {}
    /\ ReturnedIds # {}

\* the chunk texts of the DocumentChunk list stored under doc_id
stored_chunk_texts(doc_id) ==
    [i \in 1..Len(get_chunks(chunks, doc_id)) |-> get_chunks(chunks, doc_id)[i].content]

\* C13: whenever a reader looks at a stored document, the DocumentChunk list chunks[id] and
\* the document's own chunk-text list Document.chunks come from the same replacement: the
\* texts of the one are the other, never the new list beside the old one
C13_ChunkListsFromSameReplacement ==
    \A i \in 1..Len(documents) :
        documents[i].chunks = stored_chunk_texts(documents[i].id)

\* chunk_text has returned
ChunkReturned == request.op = "chunk_text" /\ trace.pc = "returned"

\* the steps of chunk_text give what the function gives
ChunkStepsAgree == ChunkReturned => response.chunks = chunk_text(request.text)

\* C14: for every text whose normalized length is at most chunk_size, chunk_text returns
\* exactly one chunk, and that chunk is the normalized text
C14_ShortTextOneChunk ==
    (ChunkReturned /\ Len(clean_text(request.text)) <= chunk_size) =>
        /\ Len(response.chunks) = 1
        /\ response.chunks[1] = clean_text(request.text)

\* a text of exactly chunk_size characters after normalization came back as one chunk
C14_Witness ==
    /\ ChunkReturned
    /\ Len(request.text) > chunk_size
    /\ Len(clean_text(request.text)) = chunk_size
    /\ response.chunks = <<clean_text(request.text)>>

\* C15: no chunk chunk_text returns is empty or whitespace-only, and for a non-empty input
\* the returned sequence is not empty, so a chunk stored from it never has empty content
C15_NoEmptyChunk ==
    ChunkReturned =>
        /\ \A k \in 1..Len(response.chunks) : strip(response.chunks[k]) # <<>>
        /\ request.text # <<>> => response.chunks # <<>>

\* a step of the chunking loop
IsLoopIteration == trace.pc = "loop" /\ trace'.pc = "loop" /\ trace'.ranges # trace.ranges

\* C16: with chunk_size 500 and overlap 50 every iteration of the chunking loop leaves start
\* strictly greater than it was (by at least chunk_size/2 + 1 - overlap), so start never moves back to or before the start of the
\* previous chunk, and the loop, which runs while start < len(text), ends: after at most
\* len(text) iterations the start has passed the end of the text
C16_StartStrictlyIncreases ==
    [][IsLoopIteration =>
          /\ trace'.start > trace.start
          /\ trace'.start >= trace.start + chunk_size \div 2 + 1 - chunk_overlap
          /\ \A k \in 1..Len(trace'.ranges) : trace'.ranges[k].start < trace'.start
          /\ \A k \in 1..(Len(trace'.ranges) - 1) :
                trace'.ranges[k].start < trace'.ranges[k + 1].start
          /\ Len(trace'.ranges) <= Len(trace.text)]_vars

\* the loop has run three times, each time cutting the chunk early at a boundary
C16_Witness ==
    /\ request.op = "chunk_text"
    /\ trace.pc = "loop"
    /\ Len(trace.ranges) >= 3
    /\ \A k \in 1..3 : trace.ranges[k].end_ < trace.ranges[k].start + chunk_size

\* ceil(n / d) for n >= 0 and d > 0
CeilDiv(n, d) == (n + d - 1) \div d

\* ceil(len / max(1, chunk_size - overlap)) + 1
IterationBound(len) == CeilDiv(len, Max2(1, chunk_size - chunk_overlap)) + 1

\* C17: for every input text the number of iterations of the chunking loop, and so the
\* number of chunks, is at most ceil(len(text) / max(1, chunk_size - overlap)) + 1, the
\* length being that of the input (the normalized text is never longer)
C17_IterationsBounded ==
    (request.op = "chunk_text" /\ trace.pc \in {"loop", "returned"}) =>
        /\ Len(trace.ranges) <= IterationBound(Len(request.text))
        /\ Len(trace.chunks) <= IterationBound(Len(request.text))

\* where the returned chunks were taken from: the windows of the iterations that kept one
KeptRanges == SelectSeq(trace.ranges, LAMBDA r : r.kept)

\* the 0-based positions of the normalized text the returned chunks are taken from
Covered ==
    UNION {KeptRanges[k].start..(KeptRanges[k].end_ - 1) : k \in 1..Len(KeptRanges)}

\* C18: for every text longer than chunk_size the returned chunks cover the normalized text
\* without gaps: the first chunk starts at the beginning, each next chunk starts at or
\* before the end of the chunk before it and at most overlap characters before that end,
\* and every character of the normalized text that is not whitespace lies in a chunk
C18_ChunksCoverText ==
    (ChunkReturned /\ Len(trace.text) > chunk_size) =>
        /\ KeptRanges # <<>>
        /\ KeptRanges[1].start = 0
        /\ \A k \in 1..(Len(KeptRanges) - 1) :
              /\ KeptRanges[k + 1].start <= KeptRanges[k].end_
              /\ KeptRanges[k + 1].start >= KeptRanges[k].end_ - chunk_overlap
        /\ response.chunks =
              [k \in 1..Len(KeptRanges) |->
                  strip(py_slice(trace.text, KeptRanges[k].start, KeptRanges[k].end_))]
        /\ \A i \in 0..(Len(trace.text) - 1) :
              trace.text[i + 1] \notin Whitespace => i \in Covered

\* _clean_text has run on the input
Cleaned == request.op = "chunk_text" /\ trace.pc # "clean"

\* C19: the text _clean_text produces has no two whitespace characters in a row and no
\* character outside the allow-list (word characters, single spaces and . , ! ? ; : - ( ))
C19_CleanTextNormalized ==
    Cleaned =>
        /\ \A i \in 1..(Len(trace.text) - 1) :
              ~(trace.text[i] \in Whitespace /\ trace.text[i + 1] \in Whitespace)
        /\ \A i \in 1..Len(trace.text) : trace.text[i] \in (AllowedChars \ {"\n", "\t"})
        /\ trace.text = clean_text(request.text)

\* the chunks of the store that carry an embedding, in insertion order
Embedded == SelectSeq(get_all_chunks(chunks), LAMBDA c : c.embedding # <<>>)

\* the similarity of the i-th embedded chunk to the query vector of the search
SimilarityOf(i) == cosine_similarity(request.query_embedding, Embedded[i].embedding[1])

\* whether the i-th embedded chunk is ranked before the j-th: more similar, or as similar
\* and inserted earlier
RankedBefore(i, j) ==
    \/ RLt(SimilarityOf(j), SimilarityOf(i))
    \/ SimilarityOf(i) = SimilarityOf(j) /\ i < j

\* every component of the vector is 0
IsZeroVector(v) == \A i \in 1..Len(v.head) : v.head[i] = 0

\* whether the rational r is the cosine of the angle between the vectors u and v, neither
\* of them zero and their dot product not negative: r >= 0 and r^2 |u|^2 |v|^2 = (u.v)^2
IsCosineOf(r, u, v) ==
    r[1] * r[1] * dot_product(u, u) * dot_product(v, v)
        = dot_product(u, v) * dot_product(u, v) * r[2] * r[2]

\* C20: search_chunks_by_similarity(q, k) with k >= 1 returns the first k elements (all of
\* them when there are fewer) of the chunks carrying an embedding, ordered by descending
\* cosine similarity to q, ties in insertion order, a zero-magnitude vector on either side
\* giving similarity 0; it never returns a chunk without an embedding and returns the empty
\* list when no chunk carries one
C20_SearchReturnsTopK ==
    (Searched /\ request.max_results >= 1) =>
        /\ response.status = 200
        /\ Len(response.results) = Min2(request.max_results, Len(Embedded))
        /\ \A j \in 1..Len(response.results) : response.results[j].embedding # <<>>
        /\ \E pos \in [1..Len(response.results) -> 1..Len(Embedded)] :
              /\ \A j \in 1..Len(response.results) : response.results[j] = Embedded[pos[j]]
              /\ \A j, l \in 1..Len(response.results) : j < l => RankedBefore(pos[j], pos[l])
              /\ \A i \in 1..Len(Embedded) :
                    (\A j \in 1..Len(response.results) : pos[j] # i) =>
                        \A j \in 1..Len(response.results) : RankedBefore(pos[j], i)
        /\ \A i \in 1..Len(Embedded) :
              (IsZeroVector(request.query_embedding) \/ IsZeroVector(Embedded[i].embedding[1]))
                  => SimilarityOf(i) = Rat(0, 1)
        /\ \A i \in 1..Len(Embedded) :
              ~(IsZeroVector(request.query_embedding) \/ IsZeroVector(Embedded[i].embedding[1]))
                  => IsCosineOf(SimilarityOf(i), request.query_embedding,
                                Embedded[i].embedding[1])
        /\ Embedded = <<>> => response.results = <<>>

\* a search for two of three chunks: one without an embedding is passed over, and of two
\* equally similar chunks the one inserted first comes first
C20_Witness ==
    /\ Searched
    /\ request.max_results = 2
    /\ Len(get_all_chunks(chunks)) = 3
    /\ get_all_chunks(chunks)[1].embedding = <<>>
    /\ Len(response.results) = 2
    /\ response.results[1].embedding = response.results[2].embedding
    /\ response.results[1] = get_all_chunks(chunks)[2]
    /\ ~IsZeroVector(request.query_embedding)

\* every embedding stored in the chunk map
IndexEmbeddings ==
    {get_all_chunks(chunks)[i].embedding : i \in 1..Len(get_all_chunks(chunks))}

\* the document a process request names
ProcessedDoc == get_document(documents, request.document_id)[1]

\* C21: when the embedding provider call fails, generate_embeddings and
\* generate_query_embedding do not raise; they give one all-zero vector per input text, of
\* the dimensionality of the vectors the provider gives on success, so processing ends
\* with status 200 and one embedded chunk per chunk text, and all embeddings in the index
\* have the same length
C21_ZeroVectorsOnProviderFailure ==
    /\ \A e \in IndexEmbeddings : e # <<>> /\ e[1].dim = ModelDim
    /\ (request.op = "process" /\ request.constructed /\ ~request.processed_before) =>
          /\ response.status = 200
          /\ Len(get_chunks(chunks, request.document_id)) = Len(chunk_text(ProcessedDoc.content))
          /\ \A i \in 1..Len(get_chunks(chunks, request.document_id)) :
                /\ get_chunks(chunks, request.document_id)[i].content
                      = chunk_text(ProcessedDoc.content)[i]
                /\ request.encode = "error" =>
                      /\ IsZeroVector(get_chunks(chunks, request.document_id)[i].embedding[1])
                      /\ get_chunks(chunks, request.document_id)[i].embedding[1].dim = ModelDim
    /\ (request.op = "health" /\ request.constructed) =>
          /\ response.document_processor.status = "healthy"
          /\ response.document_processor.embedding_dimension = ModelDim
          /\ request.encode = "error" => IsZeroVector(response.document_processor.test_embedding)

\* the provider failed while a document of three chunks was processed: three zero vectors
C21_Witness ==
    /\ request.op = "process"
    /\ request.encode = "error"
    /\ response.status = 200
    /\ Len(get_chunks(chunks, request.document_id)) = 3
    /\ \A i \in 1..3 : IsZeroVector(get_chunks(chunks, request.document_id)[i].embedding[1])

\* the handler of a delete, process or status request runs for an id that is not stored
RunsOnMissingId ==
    /\ InFlight
    /\ request.op \in DocOps
    /\ request'.stage = "returned"
    /\ request.document_id \notin doc_ids(documents)

\* C22: deleting, processing or asking the status of an id that is not in the store, whether
\* it never was or was deleted while the request waited, gives the not-found outcome (false
\* from the store and from the processor, 404 from the endpoint, never 500) and leaves the
\* store and the processor as they were
C22_MissingIdNotFound ==
    [][RunsOnMissingId =>
          /\ response'.status = 404
          /\ documents' = documents
          /\ chunks' = chunks
          /\ document_processor' = document_processor
          /\ ~delete_document(documents, chunks, request.document_id).result
          /\ ~process_document(documents, chunks, request.document_id,
                               [kind |-> "error"]).result]_vars

\* a process request answered 404 for a document that was deleted while it waited
C22_Witness ==
    /\ request.op = "process"
    /\ request.stage = "returned"
    /\ request.document_id \in request.gone
    /\ response.status = 404

\* the whitespace-separated words of s: its maximal runs of characters that are not whitespace
WordsOf(s) ==
    {SubSeq(s, p[1], p[2]) : p \in
        {q \in (1..Len(s)) \X (1..Len(s)) :
            /\ q[1] <= q[2]
            /\ \A k \in q[1]..q[2] : s[k] \notin Whitespace
            /\ (q[1] = 1 \/ s[q[1] - 1] \in Whitespace)
            /\ (q[2] = Len(s) \/ s[q[2] + 1] \in Whitespace)}}

\* the token list of the query is exactly one token, longer than 4 characters
OneLongToken ==
    Cardinality(ScannedTokens) = 1 /\ \A t \in ScannedTokens : Len(t) > 4

\* a word of the document contains the token or is contained in it
FuzzyHit(doc) ==
    \E t \in ScannedTokens, w \in WordsOf(lower(doc.content)) :
        substr_in(t, w) \/ substr_in(w, t)

\* the document is in the ranked list
Ranked(doc) == \E k \in 1..Len(trace.unique_matches) : trace.unique_matches[k].id = doc.id

\* C23: for a query without an interrogative cue whose token list is exactly one token
\* longer than 4 characters, a document with no exact phrase match and no token found is
\* ranked, at score 0.3, if and only if one of its whitespace-separated lowercased words
\* contains the token or is contained in the token; otherwise it is not ranked
C23_FuzzyMatchOneLongToken ==
    (Matched /\ ~HasCue /\ OneLongToken) =>
        \A i \in 1..Len(documents) :
            (~ExactIn(documents[i]) /\ FoundIn(documents[i], ScannedTokens) = {}) =>
                /\ Ranked(documents[i]) <=> FuzzyHit(documents[i])
                /\ Ranked(documents[i]) => RankedAt(documents[i], Rat(3, 10))

\* 'Frances' against the two documents: the word 'france' of the second is in the token,
\* no word of the first is, so only the second is ranked, at 0.3
C23_Witness ==
    /\ Matched
    /\ ~HasCue
    /\ OneLongToken
    /\ Len(documents) = 2
    /\ ~ExactIn(documents[1]) /\ FoundIn(documents[1], ScannedTokens) = {}
    /\ ~Ranked(documents[1])
    /\ ~ExactIn(documents[2]) /\ FoundIn(documents[2], ScannedTokens) = {}
    /\ RankedAt(documents[2], Rat(3, 10))

\* the contexts the match branch collected from the selected documents
RelevantContexts ==
    flatten([k \in 1..Len(trace.top) |-> contexts_of(DocOf(trace.top[k]), trace.top[k].score)])

\* the query handler handed the contexts of the selected documents to the synthesizer
HandedToSynthesizer ==
    /\ Matched
    /\ trace.site \in {"llm", "context_extraction"}
    /\ ~trace.service_raised

\* C24: every candidate chunk the query handler hands to the synthesizer is labelled, in
\* the prompt and in the synthesizer's own fallback text, with the filename of the document
\* the chunk was taken from
C24_PromptNamesSourceFile ==
    HandedToSynthesizer =>
        \A i \in 1..Len(RelevantContexts) :
            /\ prompt_doc_name(documents, llm_chunks_of(RelevantContexts)[i].document_id)
                  = RelevantContexts[i].filename
            /\ fallback_doc_name(documents, llm_chunks_of(RelevantContexts)[i].document_id)
                  = RelevantContexts[i].filename

\* the chunk list a process_document call builds for doc_id from the content it read, when
\* the embeddings are the given vector
BuiltChunks(doc_id, content, vector) ==
    [i \in 1..Len(chunk_text(content)) |->
        [document_id |-> doc_id, chunk_index |-> i - 1,
         content |-> chunk_text(content)[i], embedding |-> <<vector>>]]

\* C25: chunks of a deleted document never reappear: the two maps keep the same keys, no
\* stored chunk refers to an id that is gone, a request for an id deleted while it waited
\* finds it in neither map, and a store_chunks that arrives for a gone id with the chunks
\* built from the document's content changes neither map
C25_DeletedChunksNeverReappear ==
    /\ chunk_keys(chunks) = doc_ids(documents)
    /\ (chunk_keys(chunks) \cup chunk_document_ids(chunks)) \cap GoneIds = {}
    /\ (~Idle /\ request.op \in DocOps) =>
          request.gone \cap (doc_ids(documents) \cup chunk_keys(chunks)) = {}
    /\ \A doc_id \in GoneIds, f \in Files, vector \in ModelVectors \cup {ZeroVector} :
          store_chunks(documents, chunks, doc_id, BuiltChunks(doc_id, f.content, vector))
             = [documents |-> documents, chunks |-> chunks]

\* a processing request whose document was deleted while it waited has returned, and a
\* processed document is still stored
C25_Witness ==
    /\ request.op = "process"
    /\ request.stage = "returned"
    /\ request.document_id \in request.gone
    /\ \E i \in 1..Len(chunks) : chunks[i][2] # <<>>

\* the store holds for doc_id the list a process_document call builds from content: one
\* embedded chunk per chunk text, chunk_index 0..n-1 in order
HoldsBuiltList(docs, chs, doc_id, content) ==
    /\ doc_id \in doc_ids(docs)
    /\ Len(get_chunks(chs, doc_id)) = Len(chunk_text(content))
    /\ \A i \in 1..Len(get_chunks(chs, doc_id)) :
          /\ get_chunks(chs, doc_id)[i].document_id = doc_id
          /\ get_chunks(chs, doc_id)[i].chunk_index = i - 1
          /\ get_chunks(chs, doc_id)[i].content = chunk_text(content)[i]
          /\ get_chunks(chs, doc_id)[i].embedding # <<>>
          /\ get_chunks(chs, doc_id)[i].embedding[1].dim = EmbeddingDim
    /\ get_document(docs, doc_id)[1].chunks = chunk_text(content)

\* the content stored under doc_id, <<>> when there is none
ContentOf(doc_id) ==
    IF get_document(documents, doc_id) = <<>> THEN <<>>
    ELSE get_document(documents, doc_id)[1].content

\* the ids a process_document call may be given: stored, deleted, and never given out
ProcessCallIds == doc_ids(documents) \cup GoneIds \cup {UnknownId}

\* C26: whatever store operations ran before it, a process_document call returns true only
\* if the store it leaves holds for the id the chunk list the call built, and returns false,
\* leaving the store as it was, when it stored nothing because the id is not stored; a
\* processing request answered with 200 leaves such a list
C26_TrueOnlyIfStored ==
    /\ \A doc_id \in ProcessCallIds :
       \A encode \in EncodeOutcomes(Len(chunk_text(ContentOf(doc_id)))) :
          LET done == process_document(documents, chunks, doc_id, encode)
          IN  /\ done.result =>
                    HoldsBuiltList(done.documents, done.chunks, doc_id, ContentOf(doc_id))
              /\ doc_id \notin doc_ids(documents) =>
                    /\ ~done.result
                    /\ done.documents = documents
                    /\ done.chunks = chunks
    /\ (~Idle /\ request.op = "process" /\ request.stage = "returned"
           /\ response.status = 200) =>
          HoldsBuiltList(documents, chunks, request.document_id,
                         ContentOf(request.document_id))

\* a processing request was answered with 200 while an id deleted earlier is gone
C26_Witness ==
    /\ request.op = "process"
    /\ request.stage = "returned"
    /\ response.status = 200
    /\ request.gone # {}
    /\ HoldsBuiltList(documents, chunks, request.document_id, ContentOf(request.document_id))

\* the text is already normalized: clean_text leaves it as it is
Normalized(text) == clean_text(text) = text

\* C27: on an uploaded text that is already normalized the inline chunker of upload_document
\* gives exactly the chunks of chunk_text, so the document carries the same chunk texts after
\* the upload and after processing, and the chunk count the upload reported is the count
\* processing reports
C27_InlineChunkerAgrees ==
    (request.op = "upload" /\ Normalized(request.text)) =>
        /\ upload_chunk_loop(request.text, 0) = chunk_text(request.text)
        /\ request.stage \in {"uploaded", "processed"} =>
              /\ get_document(documents, new_id(0))[1].chunks = chunk_text(request.text)
              /\ response.status = 200
        /\ request.stage = "uploaded" =>
              response.chunks_created = Len(chunk_text(request.text))
        /\ request.stage = "processed" =>
              /\ response.chunks_created = response.uploaded
              /\ response.chunks_created = Len(chunk_text(request.text))

\* the 1-based positions of the normalized text that the chunk taken from window r keeps:
\* text[start:end] without the whitespace strip() takes off its two ends
ChunkPositions(r) ==
    LET inside == {i \in (r.start + 1)..Min2(r.end_, Len(trace.text)) :
                      trace.text[i] \notin Whitespace}
    IN  IF inside = {} THEN {}
        ELSE (CHOOSE i \in inside : \A j \in inside : i <= j)
                ..(CHOOSE i \in inside : \A j \in inside : j <= i)

\* C28: every chunk chunk_text emits after the first extends past the end of the chunk
\* before it: the character range of no emitted chunk, the last one included, lies wholly
\* inside the range of the chunk emitted before it
C28_ChunkExtendsPastPrevious ==
    ChunkReturned =>
        \A k \in 1..(Len(KeptRanges) - 1) :
            ~(ChunkPositions(KeptRanges[k + 1]) \subseteq ChunkPositions(KeptRanges[k]))

\* an upload_and_process request runs and ends with an error response
UploadAndProcessFails ==
    /\ Idle
    /\ request'.op = "upload_and_process"
    /\ response'.status >= 400

\* C29: an upload_and_process request that ends with an error response has not added a
\* document to the store: the stored documents after the request are those before it
C29_FailedUploadAddsNothing ==
    [][UploadAndProcessFails =>
          /\ documents' = documents
          /\ chunk_keys(chunks') = chunk_keys(chunks)]_vars

\* the documents the lexical matcher scored for this query
ScoredIds == {trace.unique_matches[k].id : k \in 1..Len(trace.unique_matches)}

\* C30: every filename in the sources of a query response is the filename of a document the
\* lexical matcher scored for that query and that is among the first max_results matches; a
\* document the matcher did not score is never listed as a source
C30_SourcesAreTopMatches ==
    (Matched /\ response.status = 200) =>
        /\ \A k \in 1..Len(response.sources) :
              \E j \in 1..Min2(request.max_results, Len(trace.unique_matches)) :
                  DocOf(trace.unique_matches[j]).filename = response.sources[k]
        /\ \A i \in 1..Len(documents) :
              documents[i].id \notin ScoredIds =>
                  \A k \in 1..Len(response.sources) :
                      response.sources[k] # documents[i].filename

====
